---- MODULE Spec2Model ----
(***************************************************************************)
(* A model of highd_hsm: the HSM freeway Safety Performance Function       *)
(* loader and predictor (src/highd_hsm/hsm/spf.py) with its configuration  *)
(* (src/highd_hsm/config.py).                                              *)
(*                                                                         *)
(* Numbers.  Python floats are modelled as exact rationals <<n, d>> with   *)
(* d > 0 and gcd(n, d) = 1, so an equality of the model is an equality of  *)
(* real arithmetic: it is what the code computes up to floating-point      *)
(* rounding.  NaN and the infinities are outside the model.  Monetary      *)
(* costs are counted in units of 10,000 currency units to stay inside      *)
(* TLC's 32-bit integers.                                                  *)
(***************************************************************************)
EXTENDS Integers, Sequences, FiniteSets, TLC

\* ------------------------------------------------------------ rationals

Abs(x) == IF x < 0 THEN -x ELSE x

RECURSIVE GCD(_, _)
GCD(a, b) == IF b = 0 THEN a ELSE GCD(b, a % b)

Norm(n, d) ==
    LET g == GCD(Abs(n), d)
    IN  <<n \div g, d \div g>>

R(n, d) == Norm(n, d)

Zero == R(0, 1)

One == R(1, 1)

RNeg(a) == <<-a[1], a[2]>>

RAdd(a, b) ==
    LET g == GCD(a[2], b[2])
        l == (a[2] \div g) * b[2]
    IN  Norm(a[1] * (l \div a[2]) + b[1] * (l \div b[2]), l)

RMul(a, b) ==
    LET x == Norm(a[1], b[2])
        y == Norm(b[1], a[2])
    IN  <<x[1] * y[1], x[2] * y[2]>>

RInv(a) == IF a[1] > 0 THEN <<a[2], a[1]>> ELSE <<-a[2], -a[1]>>

RDiv(a, b) == RMul(a, RInv(b))

RLe(a, b) == a[1] * b[2] <= b[1] * a[2]

RLt(a, b) == a[1] * b[2] < b[1] * a[2]

RMax(a, b) == IF RLt(a, b) THEN b ELSE a

RECURSIVE RPow(_, _)
RPow(a, k) ==
    IF k = 0 THEN One
    ELSE IF k < 0 THEN RPow(RInv(a), -k)
    ELSE RMul(a, RPow(a, k - 1))

\* True when the rational is a whole number.
IsWhole(a) == a[2] = 1

\* ------------------------------------------------------------- strings

\* The value csv.DictReader / dict.get hands over for an absent field.
NONE == "<None>"

\* str.strip on the strings of the model.
Strip(s) ==
    CASE s = " freeway " -> "freeway"
      [] s = "MV "       -> "MV"
      [] s = " sv"       -> "sv"
      [] OTHER           -> s

\* str.lower on the strings of the model.
Lower(s) ==
    CASE s = "Freeway"   -> "freeway"
      [] s = "FREEWAY"   -> "freeway"
      [] s = "URBAN"     -> "urban"
      [] s = "Urban"     -> "urban"
      [] s = "Rural"     -> "rural"
      [] s = "MV"        -> "mv"
      [] s = "MV "       -> "mv "
      [] s = "SV"        -> "sv"
      [] s = "Total_FI"  -> "total_fi"
      [] OTHER           -> s

\* float(value) on the strings of the model: the literals float() accepts
\* (surrounding blanks allowed), each with its value.  Costs are in units
\* of 10,000.
FloatLiterals ==
    "0" :> R(0, 1) @@ "0.0" :> R(0, 1) @@ "1" :> R(1, 1) @@ "1.0" :> R(1, 1)
    @@ " 1 " :> R(1, 1) @@ "2" :> R(2, 1) @@ "3" :> R(3, 1)
    @@ "-1" :> R(-1, 1) @@ "-1.0" :> R(-1, 1) @@ "0.5" :> R(1, 2)
    @@ "-0.5" :> R(-1, 2) @@ "0.25" :> R(1, 4) @@ "0.75" :> R(3, 4)
    @@ "0.2" :> R(1, 5) @@ "0.8" :> R(4, 5)
    @@ "20000" :> R(2, 1) @@ "50000.0" :> R(5, 1)

IsFloatLiteral(s) == s \in DOMAIN FloatLiterals

\* ------------------------------------------------- module-level tables

KABCO_LEVELS == <<"k", "a", "b", "c", "o">>

Levels == {"k", "a", "b", "c", "o"}

FiLevels == {"k", "a", "b", "c"}

DEFAULT_KABCO_SHARES ==
    [k |-> R(2, 100), a |-> R(6, 100), b |-> R(12, 100), c |-> R(20, 100),
     o |-> R(60, 100)]

DEFAULT_SEVERITY_COSTS ==
    [k |-> R(1100, 1), a |-> R(150, 1), b |-> R(45, 1), c |-> R(12, 1),
     o |-> R(1, 1)]

\* The module's global state: the two default tables are mutable dicts.
ModuleGlobals ==
    [DEFAULT_KABCO_SHARES |-> DEFAULT_KABCO_SHARES,
     DEFAULT_SEVERITY_COSTS |-> DEFAULT_SEVERITY_COSTS]

ShareField ==
    [k |-> "k_share", a |-> "a_share", b |-> "b_share", c |-> "c_share",
     o |-> "o_share"]

CostField ==
    [k |-> "k_cost", a |-> "a_cost", b |-> "b_cost", c |-> "c_cost",
     o |-> "o_cost"]

\* sum(d.values()) of a five-level dict, in KABCO_LEVELS order from 0.0.
Sum5(d) ==
    RAdd(RAdd(RAdd(RAdd(RAdd(Zero, d.k), d.a), d.b), d.c), d.o)

\* d["k"] + d["a"] + d["b"] + d["c"]
\* The fatal-and-injury sum with the C level left out.
Sum4_without_c(d) == RAdd(RAdd(d.k, d.a), d.b)

Sum4(d) == RAdd(RAdd(RAdd(d.k, d.a), d.b), d.c)

\* ----------------------------------------------------- SeverityProfile

\* row.get(field): the field's string, or None when the row has no such key.
Get(row, f) == IF f \in DOMAIN row THEN row[f] ELSE NONE

\* row.get(field, "")
GetStr(row, f) == IF f \in DOMAIN row /\ row[f] # NONE THEN row[f] ELSE ""

\* _coerce_float returning 0.0, not the default, for a missing value.
coerce_float_zero_for_missing(value, default) ==
    IF value \in {NONE, "", "nan", "NaN"} THEN Zero
    ELSE IF IsFloatLiteral(value) THEN FloatLiterals[value]
    ELSE default

coerce_float(value, default) ==
    IF value \in {NONE, "", "nan", "NaN"} THEN default
    ELSE IF IsFloatLiteral(value) THEN FloatLiterals[value]
    ELSE default

\* The override block spreading the whole fi target, not a quarter of it,
\* to each level of a zero fatal-and-injury block.
apply_override_without_quarter(shares, fi_override, pdo_override) ==
    IF RLe(Zero, fi_override) /\ RLe(Zero, pdo_override)
       /\ RLt(Zero, RAdd(fi_override, pdo_override))
    THEN [l \in Levels |->
            IF l \in FiLevels
            THEN IF RLt(Zero, Sum4(shares))
                 THEN RMul(shares[l],
                           RDiv(RDiv(fi_override,
                                     RAdd(fi_override, pdo_override)),
                                Sum4(shares)))
                 ELSE RDiv(fi_override, RAdd(fi_override, pdo_override))
            ELSE RDiv(pdo_override, RAdd(fi_override, pdo_override))]
    ELSE shares

\* The fi/pdo override block of from_row (lines 91-112) applied to the
\* normalized shares.
apply_override(shares, fi_override, pdo_override) ==
    IF RLe(Zero, fi_override) /\ RLe(Zero, pdo_override)
       /\ RLt(Zero, RAdd(fi_override, pdo_override))
    THEN
        LET total_override == RAdd(fi_override, pdo_override)
            fi_target   == RDiv(fi_override, total_override)
            pdo_target  == RDiv(pdo_override, total_override)
            current_fi  == Sum4(shares)
            current_pdo == shares.o
            equal_fi    == IF RLt(Zero, fi_target)
                           THEN RDiv(fi_target, R(4, 1)) ELSE Zero
            scaled ==
                [l \in Levels |->
                    IF l \in FiLevels
                    THEN IF RLt(Zero, current_fi)
                         THEN RMul(shares[l], RDiv(fi_target, current_fi))
                         ELSE equal_fi
                    ELSE IF RLt(Zero, current_pdo)
                         THEN RMul(shares[l], RDiv(pdo_target, current_pdo))
                         ELSE pdo_target]
            total_scaled == Sum5(scaled)
        IN  IF RLt(Zero, total_scaled)
            THEN [l \in Levels |-> RDiv(scaled[l], total_scaled)]
            ELSE scaled
    ELSE shares

\* from_row with a missing override counted as 0.0, not as -1.0.
from_row_missing_override_as_zero(row, G) ==
    LET raw == [l \in Levels |->
                  coerce_float(Get(row, ShareField[l]), G.DEFAULT_KABCO_SHARES[l])]
        total0 == Sum5(raw)
        reset  == RLe(total0, Zero)
        picked == IF reset THEN G.DEFAULT_KABCO_SHARES ELSE raw
        total  == IF reset THEN Sum5(picked) ELSE total0
        normalized == [l \in Levels |-> RDiv(picked[l], total)]
        fi_override  == coerce_float(Get(row, "fi_share"), Zero)
        pdo_override == coerce_float(Get(row, "pdo_share"), Zero)
        shares == apply_override(normalized, fi_override, pdo_override)
    IN  [facility       |-> Lower(Strip(GetStr(row, "facility"))),
         area_type      |-> Lower(Strip(GetStr(row, "area_type"))),
         collision_type |-> Lower(Strip(GetStr(row, "collision_type"))),
         kabco_shares   |-> shares,
         fi_share       |-> Sum4(shares),
         pdo_share      |-> shares.o,
         severity_costs |->
            [l \in Levels |->
               coerce_float(Get(row, CostField[l]), G.DEFAULT_SEVERITY_COSTS[l])]]

from_row(row, G) ==
    LET raw == [l \in Levels |->
                  coerce_float(Get(row, ShareField[l]), G.DEFAULT_KABCO_SHARES[l])]
        total0 == Sum5(raw)
        reset  == RLe(total0, Zero)
        picked == IF reset THEN G.DEFAULT_KABCO_SHARES ELSE raw
        total  == IF reset THEN Sum5(picked) ELSE total0
        normalized == [l \in Levels |-> RDiv(picked[l], total)]
        fi_override  == coerce_float(Get(row, "fi_share"), R(-1, 1))
        pdo_override == coerce_float(Get(row, "pdo_share"), R(-1, 1))
        shares == apply_override(normalized, fi_override, pdo_override)
    IN  [facility       |-> Lower(Strip(GetStr(row, "facility"))),
         area_type      |-> Lower(Strip(GetStr(row, "area_type"))),
         collision_type |-> Lower(Strip(GetStr(row, "collision_type"))),
         kabco_shares   |-> shares,
         fi_share       |-> Sum4(shares),
         pdo_share      |-> shares.o,
         severity_costs |->
            [l \in Levels |->
               coerce_float(Get(row, CostField[l]), G.DEFAULT_SEVERITY_COSTS[l])]]

fallback(facility, area_type, collision_type, G) ==
    LET shares == G.DEFAULT_KABCO_SHARES
        total  == Sum5(shares)
        normalized == [l \in Levels |-> RDiv(shares[l], total)]
    IN  [facility       |-> facility,
         area_type      |-> area_type,
         collision_type |-> collision_type,
         kabco_shares   |-> normalized,
         fi_share       |-> Sum4(normalized),
         pdo_share      |-> normalized.o,
         severity_costs |-> G.DEFAULT_SEVERITY_COSTS]

\* ------------------------------------------------------ SpfCoefficient

\* math.exp on the intercepts of the model.  e is approximated by 8/3
\* (and 1/e by 3/8): the claims checked do not depend on its value.
Exp(x) ==
    CASE x = R(0, 1)  -> R(1, 1)
      [] x = R(1, 1)  -> R(8, 3)
      [] x = R(-1, 1) -> R(3, 8)

\* SpfCoefficient.predict multiplying by the intercept itself, not by its
\* exponential.
SpfCoefficient_predict_intercept_not_exponentiated(coef, aadt, length_miles, lanes) ==
    IF RLe(aadt, Zero) \/ RLe(length_miles, Zero) \/ RLe(lanes, Zero)
    THEN Zero
    ELSE RMul(RMul(RMul(coef.intercept,
                        RPow(aadt, coef.aadt_exponent[1])),
                   RPow(length_miles, coef.length_exponent[1])),
              RPow(lanes, coef.lanes_exponent[1]))

\* SpfCoefficient.predict leaving a non-positive input out of the product
\* instead of returning 0.0.
SpfCoefficient_predict_skipping_nonpositive(coef, aadt, length_miles, lanes) ==
    RMul(RMul(RMul(Exp(coef.intercept),
                   IF RLe(aadt, Zero) THEN One
                   ELSE RPow(aadt, coef.aadt_exponent[1])),
              IF RLe(length_miles, Zero) THEN One
              ELSE RPow(length_miles, coef.length_exponent[1])),
         IF RLe(lanes, Zero) THEN One
         ELSE RPow(lanes, coef.lanes_exponent[1]))

\* exp(i + a*ln(x) + b*ln(y) + c*ln(z)) computed as exp(i) * x^a * y^b * z^c,
\* for whole exponents a, b, c.
SpfCoefficient_predict(coef, aadt, length_miles, lanes) ==
    IF RLe(aadt, Zero) \/ RLe(length_miles, Zero) \/ RLe(lanes, Zero)
    THEN Zero
    ELSE RMul(RMul(RMul(Exp(coef.intercept),
                        RPow(aadt, coef.aadt_exponent[1])),
                   RPow(length_miles, coef.length_exponent[1])),
              RPow(lanes, coef.lanes_exponent[1]))

\* -------------------------------------------------------------- config

\* k_for_length without the floor of 1e-3 under the length.
k_for_length_without_floor(overdispersion, length_miles) ==
    [alpha |-> overdispersion.alpha,
     base  |-> length_miles,
     beta  |-> overdispersion.beta]

\* SpfOverdispersionConfig.k_for_length: alpha * max(length, 1e-3) ** beta,
\* kept as the three numbers of the expression (beta is -0.5 by default,
\* so the power is not a rational in general).
k_for_length(overdispersion, length_miles) ==
    [alpha |-> overdispersion.alpha,
     base  |-> RMax(length_miles, R(1, 1000)),
     beta  |-> overdispersion.beta]

\* cmf_for_key handing any configured override to every key.
cmf_for_key_any_override(config, key) ==
    IF DOMAIN config.cmf_overrides # {}
    THEN config.cmf_overrides[CHOOSE k \in DOMAIN config.cmf_overrides : TRUE]
    ELSE config.default_cmf

cmf_for_key(config, key) ==
    IF key \in DOMAIN config.cmf_overrides
    THEN config.cmf_overrides[key]
    ELSE config.default_cmf

\* HsmConfig(): the defaults of the dataclasses.
DefaultHsmConfig ==
    [calibration_factor |-> R(1, 1),
     default_cmf        |-> R(1, 1),
     cmf_overrides      |-> <<>>,
     overdispersion     |-> [alpha |-> R(4, 10), beta |-> R(-1, 2)]]

\* ---------------------------------------------------------- FreewaySpf

\* float(row[field]) of a coefficient row: the value, or "ValueError".
ParseFloat(value) ==
    IF IsFloatLiteral(value) THEN [ok |-> TRUE, v |-> FloatLiterals[value]]
    ELSE [ok |-> FALSE, v |-> Zero]

\* float(row.get("lanes_exponent", 0.0) or 0.0)
ParseLanes(row) ==
    IF Get(row, "lanes_exponent") \in {NONE, ""}
    THEN [ok |-> TRUE, v |-> Zero]
    ELSE ParseFloat(row["lanes_exponent"])

CoefficientRowParses(row) ==
    /\ ParseFloat(row["intercept"]).ok
    /\ ParseFloat(row["aadt_exponent"]).ok
    /\ ParseFloat(row["length_exponent"]).ok
    /\ ParseLanes(row).ok

\* The coefficient of a row with its key strings lower-cased but not
\* trimmed.
coefficient_of_row_untrimmed(row) ==
    [facility        |-> Lower(row["facility"]),
     area_type       |-> Lower(row["area_type"]),
     collision_type  |-> Lower(row["collision_type"]),
     intercept       |-> ParseFloat(row["intercept"]).v,
     aadt_exponent   |-> ParseFloat(row["aadt_exponent"]).v,
     length_exponent |-> ParseFloat(row["length_exponent"]).v,
     lanes_exponent  |-> ParseLanes(row).v]

coefficient_of_row(row) ==
    [facility        |-> Lower(Strip(row["facility"])),
     area_type       |-> Lower(Strip(row["area_type"])),
     collision_type  |-> Lower(Strip(row["collision_type"])),
     intercept       |-> ParseFloat(row["intercept"]).v,
     aadt_exponent   |-> ParseFloat(row["aadt_exponent"]).v,
     length_exponent |-> ParseFloat(row["length_exponent"]).v,
     lanes_exponent  |-> ParseLanes(row).v]

\* from_files leaving out a coefficient row that does not parse, instead
\* of raising.
from_files_partial(coefficient_rows, severity_rows, config, G) ==
    [error |-> "",
     model |->
        [coefficients |->
            [i \in 1..Len(SelectSeq(coefficient_rows, CoefficientRowParses)) |->
                coefficient_of_row(
                    SelectSeq(coefficient_rows, CoefficientRowParses)[i])],
         severity_profiles |->
            [i \in 1..Len(severity_rows) |-> from_row(severity_rows[i], G)],
         config |-> config]]

\* FreewaySpf.from_files on the rows of the two csv files: the model, or
\* the exception of the first row that does not parse.
from_files(coefficient_rows, severity_rows, config, G) ==
    IF \E i \in 1..Len(coefficient_rows) :
           ~CoefficientRowParses(coefficient_rows[i])
    THEN [error |-> "ValueError"]
    ELSE [error |-> "",
          model |->
            [coefficients |->
                [i \in 1..Len(coefficient_rows) |->
                    coefficient_of_row(coefficient_rows[i])],
             severity_profiles |->
                [i \in 1..Len(severity_rows) |-> from_row(severity_rows[i], G)],
             config |-> config]]

\* The keys of the dict comprehension, in insertion order: the collision
\* types of the matching rows, each at its first occurrence.
RECURSIVE MatchKeys(_, _, _, _)
MatchKeys(coefficients, facility, area_type, i) ==
    IF i = 0 THEN <<>>
    ELSE LET before == MatchKeys(coefficients, facility, area_type, i - 1)
             coef   == coefficients[i]
         IN  IF /\ coef.facility = facility
                /\ coef.area_type = area_type
                /\ \A j \in 1..Len(before) : before[j] # coef.collision_type
             THEN Append(before, coef.collision_type)
             ELSE before

\* The smallest index of a matching row of that collision type: the first
\* row kept under its key.
FirstMatch(coefficients, facility, area_type, collision) ==
    CHOOSE i \in 1..Len(coefficients) :
        /\ coefficients[i].facility = facility
        /\ coefficients[i].area_type = area_type
        /\ coefficients[i].collision_type = collision
        /\ \A j \in 1..(i - 1) :
              ~ /\ coefficients[j].facility = facility
                /\ coefficients[j].area_type = area_type
                /\ coefficients[j].collision_type = collision

\* The largest index of a matching row of that collision type: a later
\* row replaces an earlier one under the same key.
LastMatch(coefficients, facility, area_type, collision) ==
    CHOOSE i \in 1..Len(coefficients) :
        /\ coefficients[i].facility = facility
        /\ coefficients[i].area_type = area_type
        /\ coefficients[i].collision_type = collision
        /\ \A j \in (i + 1)..Len(coefficients) :
              ~ /\ coefficients[j].facility = facility
                /\ coefficients[j].area_type = area_type
                /\ coefficients[j].collision_type = collision

\* select_coefficients without the check for an empty selection.
select_coefficients_without_raise(coefficients, facility, area_type) ==
    LET keys == MatchKeys(coefficients, facility, area_type, Len(coefficients))
    IN  [error |-> "",
         keys  |-> keys,
         coef  |-> [c \in {keys[i] : i \in 1..Len(keys)} |->
                      coefficients[LastMatch(coefficients, facility,
                                             area_type, c)]]]

select_coefficients(coefficients, facility, area_type) ==
    LET keys == MatchKeys(coefficients, facility, area_type, Len(coefficients))
    IN  IF keys = <<>>
        THEN [error |-> "KeyError", keys |-> <<>>, coef |-> <<>>]
        ELSE [error |-> "",
              keys  |-> keys,
              coef  |-> [c \in {keys[i] : i \in 1..Len(keys)} |->
                           coefficients[LastMatch(coefficients, facility,
                                                  area_type, c)]]]

\* _severity_profile returning the first loaded profile without comparing
\* its key.
severity_profile_first_loaded(profiles, facility, area_type, collision_type, G) ==
    IF Len(profiles) > 0 THEN profiles[1]
    ELSE fallback(facility, area_type, collision_type, G)

severity_profile(profiles, facility, area_type, collision_type, G) ==
    IF \E i \in 1..Len(profiles) :
          /\ profiles[i].facility = facility
          /\ profiles[i].area_type = area_type
          /\ profiles[i].collision_type = collision_type
    THEN profiles[CHOOSE i \in 1..Len(profiles) :
                     /\ profiles[i].facility = facility
                     /\ profiles[i].area_type = area_type
                     /\ profiles[i].collision_type = collision_type
                     /\ \A j \in 1..(i - 1) :
                           ~ /\ profiles[j].facility = facility
                             /\ profiles[j].area_type = area_type
                             /\ profiles[j].collision_type = collision_type]
    ELSE fallback(facility, area_type, collision_type, G)

\* The function f itself, with its values computed once.
Eager(f) == f @@ <<>>

\* info.get(key, 0.0) of one direction's input mapping.
InfoGet(info, key) == IF key \in DOMAIN info THEN info[key] ELSE Zero

ZeroLevels == [l \in Levels |-> Zero]

\* predict._empty_summary
empty_summary ==
    [fi |-> Zero, pdo |-> Zero, total |-> Zero,
     kabco |-> ZeroLevels,
     economic_loss |-> [total |-> Zero, by_severity |-> ZeroLevels]]

\* sum(seq) from 0.0, left to right.
RECURSIVE SumSeq(_, _)
SumSeq(seq, n) == IF n = 0 THEN Zero ELSE RAdd(SumSeq(seq, n - 1), seq[n])

\* base * config.calibration_factor * cmf for one direction and one
\* collision type (lines 230-236).
calibrated_estimate(config, info, collision, coef) ==
    RMul(RMul(SpfCoefficient_predict(coef,
                                     InfoGet(info, "aadt"),
                                     InfoGet(info, "segment_length_miles"),
                                     InfoGet(info, "lane_count")),
              config.calibration_factor),
         cmf_for_key(config, collision))

\* expected = calibrated * share; cost = expected * severity_costs[level]
expected_count(calibrated, profile, l) ==
    RMul(calibrated, profile.kabco_shares[l])

expected_cost(calibrated, profile, l) ==
    RMul(expected_count(calibrated, profile, l), profile.severity_costs[l])

\* decompose with the cost of the O level left out of the summed cost.
decompose_without_o_cost(calibrated, profile) ==
    [fi       |-> RMul(calibrated, profile.fi_share),
     pdo      |-> RMul(calibrated, profile.pdo_share),
     total    |-> calibrated,
     expected |-> Eager([l \in Levels |->
                            expected_count(calibrated, profile, l)]),
     cost     |-> Eager([l \in Levels |->
                            expected_cost(calibrated, profile, l)]),
     severity_cost_total |->
        Sum4([l \in Levels |-> expected_cost(calibrated, profile, l)])]

\* What one pass of the inner loop (lines 242-255) adds, given the
\* calibrated estimate and the severity profile.
decompose(calibrated, profile) ==
    [fi       |-> RMul(calibrated, profile.fi_share),
     pdo      |-> RMul(calibrated, profile.pdo_share),
     total    |-> calibrated,
     expected |-> Eager([l \in Levels |->
                            expected_count(calibrated, profile, l)]),
     cost     |-> Eager([l \in Levels |->
                            expected_cost(calibrated, profile, l)]),
     severity_cost_total |->
        Sum5([l \in Levels |-> expected_cost(calibrated, profile, l)])]

contribution(model, G, facility, area_type, info, collision, coef) ==
    decompose(calibrated_estimate(model.config, info, collision, coef),
              severity_profile(model.severity_profiles, facility, area_type,
                               collision, G))

\* A summary with the m contributions add[1..m] added in turn to the
\* empty summary.
summed(add, m) ==
    [fi    |-> SumSeq([j \in 1..m |-> add[j].fi], m),
     pdo   |-> SumSeq([j \in 1..m |-> add[j].pdo], m),
     total |-> SumSeq([j \in 1..m |-> add[j].total], m),
     kabco |-> [l \in Levels |->
                  SumSeq([j \in 1..m |-> add[j].expected[l]], m)],
     economic_loss |->
        [total |-> SumSeq([j \in 1..m |-> add[j].severity_cost_total], m),
         by_severity |->
            [l \in Levels |-> SumSeq([j \in 1..m |-> add[j].cost[l]], m)]]]

\* collision_totals[collision] after the loops over the directions.
collision_summary(model, G, facility, area_type, inputs, collision, coef) ==
    summed(Eager([j \in 1..Len(inputs) |->
                     contribution(model, G, facility, area_type, inputs[j],
                                  collision, coef)]),
           Len(inputs))

\* severity_totals and severity_cost_totals with the contributions of the
\* steps add[1..k] added in turn.
level_totals(add, k) ==
    [severity_totals |->
        [l \in Levels |-> SumSeq([s \in 1..k |-> add[s].expected[l]], k)],
     severity_cost_totals |->
        [l \in Levels |-> SumSeq([s \in 1..k |-> add[s].cost[l]], k)]]

\* The loops run over the directions and, inside, over the selected
\* collision types: with n collision types, step s is direction
\* (s - 1) \div n + 1 and collision type (s - 1) % n + 1.
step_contribution(model, G, facility, area_type, inputs, selected, n, s) ==
    contribution(model, G, facility, area_type,
                 inputs[((s - 1) \div n) + 1],
                 selected.keys[((s - 1) % n) + 1],
                 selected.coef[selected.keys[((s - 1) % n) + 1]])

\* The accumulators after the loops (lines 221-257).
accumulators(model, G, facility, area_type, inputs, selected) ==
    [collision_totals |->
        IF Len(inputs) = 0 THEN <<>>
        ELSE [c \in {selected.keys[i] : i \in 1..Len(selected.keys)} |->
                collision_summary(model, G, facility, area_type, inputs,
                                  c, selected.coef[c])],
     levels |->
        level_totals(
            Eager([s \in 1..(Len(inputs) * Len(selected.keys)) |->
                     step_contribution(model, G, facility, area_type, inputs,
                                       selected, Len(selected.keys), s)]),
            Len(inputs) * Len(selected.keys))]

\* Lines 259-261: a selected collision type without a summary gets an
\* empty one.
fill_missing(collision_totals, keys) ==
    [c \in DOMAIN collision_totals \cup {keys[i] : i \in 1..Len(keys)} |->
        IF c \in DOMAIN collision_totals THEN collision_totals[c]
        ELSE empty_summary]

\* sum(lengths) / len(lengths) if lengths else 0.0
mean_length(inputs) ==
    IF Len(inputs) = 0 THEN Zero
    ELSE RDiv(SumSeq([j \in 1..Len(inputs) |->
                         InfoGet(inputs[j], "segment_length_miles")],
                     Len(inputs)),
              R(Len(inputs), 1))

AggregateKeys ==
    {"total_all_sev", "total_fi", "total_pdo", "severity_breakdown",
     "economic_loss", "k_overdispersion", "calibration_C"}

\* Lines 263-267 and the values of the update (lines 272-281).
run_totals(config, inputs, keys, totals, severity_totals, severity_cost_totals) ==
    [error |-> "",
     keys  |-> keys,
     collision_totals     |-> totals,
     severity_totals      |-> severity_totals,
     severity_cost_totals |-> severity_cost_totals,
     total_all |-> SumSeq([i \in 1..Len(keys) |-> totals[keys[i]].total],
                          Len(keys)),
     total_fi  |-> RAdd(RAdd(RAdd(RAdd(Zero, severity_totals.k),
                                  severity_totals.a),
                             severity_totals.b),
                        severity_totals.c),
     total_pdo |-> severity_totals.o,
     combined_loss |-> Sum5(severity_cost_totals),
     k_value   |-> k_for_length(config.overdispersion, mean_length(inputs)),
     calibration_C |-> config.calibration_factor]

predict_selected(model, G, facility, area_type, inputs, selected, acc) ==
    run_totals(model.config, inputs, selected.keys,
               fill_missing(acc.collision_totals, selected.keys),
               acc.levels.severity_totals, acc.levels.severity_cost_totals)

predict_normalized(model, G, facility, area_type, inputs, selected) ==
    IF selected.error # ""
    THEN [error |-> selected.error]
    ELSE predict_selected(model, G, facility, area_type, inputs, selected,
                          accumulators(model, G, facility, area_type, inputs,
                                       selected))

\* What one predict call computes: the exception it raises, or the
\* accumulators and the run-level values the result is assembled from.
predict_values(model, G, call) ==
    predict_normalized(model, G, Lower(call.facility), Lower(call.area_type),
                       call.directional_inputs,
                       select_coefficients(model.coefficients,
                                           Lower(call.facility),
                                           Lower(call.area_type)))

\* ------------------------------------------------- objects and the heap

(***************************************************************************)
(* The dicts a predict call returns are mutable objects.  The heap maps an *)
(* address to a dict, a dict maps a key to a slot, and a slot holds a      *)
(* float ([f |-> x]) or a reference to another dict ([ref |-> address]).   *)
(***************************************************************************)

FloatSlots(d) == [l \in DOMAIN d |-> [f |-> d[l]]]

Min(S) == CHOOSE x \in S : \A y \in S : x <= y

RECURSIVE SortedSeq(_)
SortedSeq(S) ==
    IF S = {} THEN <<>> ELSE <<Min(S)>> \o SortedSeq(S \ {Min(S)})

\* The addresses of n new objects: none of them is the address of a live
\* object.
\* Allocation handing out the same addresses at every call.
new_addresses_reused(h, n) == [i \in 1..n |-> i]

new_addresses(h, n) ==
    SubSeq(SortedSeq((1..(Cardinality(DOMAIN h) + n)) \ DOMAIN h), 1, n)

\* The four dicts one _empty_summary() call creates and the loop fills,
\* at the addresses A[base + 1 .. base + 4].
summary_objects(summary, A, base) ==
    (A[base + 1] :>
        [fi    |-> [f |-> summary.fi],
         pdo   |-> [f |-> summary.pdo],
         total |-> [f |-> summary.total],
         kabco |-> [ref |-> A[base + 2]],
         economic_loss |-> [ref |-> A[base + 3]]])
    @@ (A[base + 2] :> FloatSlots(summary.kabco))
    @@ (A[base + 3] :>
        [total |-> [f |-> summary.economic_loss.total],
         by_severity |-> [ref |-> A[base + 4]]])
    @@ (A[base + 4] :> FloatSlots(summary.economic_loss.by_severity))

RECURSIVE all_summary_objects(_, _, _)
all_summary_objects(v, A, i) ==
    IF i = 0 THEN <<>>
    ELSE all_summary_objects(v, A, i - 1)
         @@ summary_objects(v.collision_totals[v.keys[i]], A, 2 + 4 * (i - 1))

IndexOf(keys, c) == CHOOSE i \in 1..Len(keys) : keys[i] = c

\* The values of prediction.update({...}) (lines 270-283), with n
\* collision types.
aggregate_slots(v, A, n) ==
    [total_all_sev |-> [f |-> v.total_all],
     total_fi      |-> [f |-> v.total_fi],
     total_pdo     |-> [f |-> v.total_pdo],
     severity_breakdown |-> [ref |-> A[1]],
     economic_loss |-> [ref |-> A[4 * n + 4]],
     k_overdispersion |-> [f |-> v.k_value],
     calibration_C |-> [f |-> v.calibration_C]]

\* prediction = {collision: data ...}; prediction.update({...}): a key of
\* the update replaces a collision type of that name.
prediction_object(v, A, n) ==
    [key \in {v.keys[i] : i \in 1..n} \cup AggregateKeys |->
        IF key \in AggregateKeys THEN aggregate_slots(v, A, n)[key]
        ELSE [ref |-> A[2 + 4 * (IndexOf(v.keys, key) - 1) + 1]]]

\* Every dict of one successful call with n collision types, at the
\* addresses A; the returned dict is at A[4n + 3].
result_objects(v, A, n) ==
    (A[1] :> FloatSlots(v.severity_totals))
    @@ (A[2] :> FloatSlots(v.severity_cost_totals))
    @@ all_summary_objects(v, A, n)
    @@ (A[4 * n + 3] :> prediction_object(v, A, n))
    @@ (A[4 * n + 4] :>
          [total |-> [f |-> v.combined_loss], by_severity |-> [ref |-> A[2]]])

\* The value of the object at address a: its keys, each with its float or
\* with the value of the dict it refers to.
RECURSIVE Deref(_, _)
Deref(h, a) ==
    IF a \notin DOMAIN h THEN [dangling |-> a]
    ELSE [key \in DOMAIN h[a] |->
            IF "ref" \in DOMAIN h[a][key]
            THEN [d |-> Deref(h, h[a][key].ref)]
            ELSE h[a][key]]

\* The addresses the dict at address a refers to.
Refs(h, a) ==
    {h[a][key].ref : key \in {k \in DOMAIN h[a] : "ref" \in DOMAIN h[a][k]}}

\* The addresses reachable from the frontier.
RECURSIVE Reach(_, _, _)
Reach(h, frontier, seen) ==
    IF frontier = {} THEN seen
    ELSE Reach(h,
               UNION {Refs(h, a) : a \in frontier \cap DOMAIN h}
                  \ (seen \cup frontier),
               seen \cup frontier)

\* ------------------------------------------------------------ the state

\* --------------------------------------------------------- pipeline.flow

\* int(value) on the strings of the model: the literals int() accepts
\* (surrounding blanks allowed), each with its value.
IntLiterals == "1" :> 1 @@ "2" :> 2 @@ " 1 " :> 1 @@ "02" :> 2

\* int(row.get("drivingDirection", 0)): the direction, or not ok when int
\* raises TypeError (None) or ValueError.
direction_of(row) ==
    IF "drivingDirection" \notin DOMAIN row THEN [ok |-> TRUE, v |-> 0]
    ELSE IF row.drivingDirection \in DOMAIN IntLiterals
    THEN [ok |-> TRUE, v |-> IntLiterals[row.drivingDirection]]
    ELSE [ok |-> FALSE, v |-> 0]

\* flow._classify_vehicle
classify_vehicle(value) ==
    IF value \in {"car", "Car", "CAR", "0"} THEN "car"
    ELSE IF value # NONE /\ Lower(value) = "car" THEN "car"
    ELSE IF value \in {"truck", "Truck", "TRUCK", "1"} THEN "truck"
    ELSE IF value # NONE /\ Lower(value) = "truck" THEN "truck"
    ELSE "unknown"

\* The rows of one direction, in file order, each with its vehicle_class
\* (lines 63-71).
RECURSIVE vehicles_of_direction(_, _, _)
vehicles_of_direction(tracks_meta, direction, n) ==
    IF n = 0 THEN <<>>
    ELSE IF direction_of(tracks_meta[n]).ok
            /\ direction_of(tracks_meta[n]).v = direction
    THEN Append(vehicles_of_direction(tracks_meta, direction, n - 1),
                [id |-> Get(tracks_meta[n], "id"),
                 vehicle_class |->
                    classify_vehicle(Get(tracks_meta[n], "class"))])
    ELSE vehicles_of_direction(tracks_meta, direction, n - 1)

\* The directions that have rows.
directions_of(tracks_meta) ==
    {direction_of(tracks_meta[k]).v :
        k \in {j \in 1..Len(tracks_meta) : direction_of(tracks_meta[j]).ok}}

\* vehicle_count with every row that has an id counted, repeated ids too.
vehicle_count_per_row(subset) ==
    Cardinality({k \in 1..Len(subset) : subset[k].id # NONE})

\* len(unique_ids): the distinct ids of the rows that have one.
vehicle_count(subset) ==
    Cardinality({subset[k].id :
                    k \in {j \in 1..Len(subset) : subset[j].id # NONE}})

\* class_counts: the rows that have an id, counted by vehicle_class.
class_counts(subset) ==
    [cls \in {subset[k].vehicle_class :
                 k \in {j \in 1..Len(subset) : subset[j].id # NONE}} |->
        Cardinality({k \in 1..Len(subset) :
                        subset[k].id # NONE /\ subset[k].vehicle_class = cls})]

\* vehicle_count / duration * 3600.0 if duration > 0 else 0.0
hourly_flow(count, duration) ==
    IF RLt(Zero, duration)
    THEN RMul(RDiv(R(count, 1), duration), R(3600, 1))
    ELSE Zero

\* The entry of one direction (lines 74-102), without its time series and
\* its average speed.
direction_flow(subset, duration) ==
    [vehicle_count |-> vehicle_count(subset),
     hourly_flow_veh_per_h |-> hourly_flow(vehicle_count(subset), duration),
     class_shares |->
        [cls \in DOMAIN class_counts(subset) |->
            IF vehicle_count(subset) # 0
            THEN R(class_counts(subset)[cls], vehicle_count(subset))
            ELSE Zero]]

\* The result with its total (lines 104-105) over the directions in dict
\* order, which is sorted order.
flow_with_total(duration, directions, order) ==
    [duration_sec |-> duration,
     directions |-> directions,
     hourly_flow_total |->
        SumSeq([k \in 1..Len(order) |->
                   directions[order[k]].hourly_flow_veh_per_h], Len(order))]

\* flow._directional_timeseries divides the initial frame of every row of
\* a direction by the frame rate: a frame rate of 0 is a ZeroDivisionError
\* as soon as one direction has a row. (The initial frames are finite.)
timeseries_raises(recording) ==
    /\ recording.frame_rate = Zero
    /\ directions_of(recording.tracks_meta) # {}

\* flow.summarize_flow on the duration, the frame rate and the tracksMeta
\* rows of a recording: the error raised, or the result.
summarize_flow(recording) ==
    IF timeseries_raises(recording)
    THEN [raised |-> "ZeroDivisionError"]
    ELSE [raised |-> ""] @@
         flow_with_total(
            recording.duration,
            Eager([d \in directions_of(recording.tracks_meta) |->
                      direction_flow(
                          vehicles_of_direction(recording.tracks_meta, d,
                                                Len(recording.tracks_meta)),
                          recording.duration)]),
            SortedSeq(directions_of(recording.tracks_meta)))

\* A recording without a timestamp, a run without a factor configuration.
NoTimestamp == [none |-> TRUE]
NoFactors == [none |-> TRUE]

\* str(month) and str(hour) of the months and hours of the recordings.
IntStr == 3 :> "3" @@ 8 :> "8" @@ 11 :> "11" @@ 14 :> "14"

\* AadtFactorConfig.factor_for_weekday
factor_for_weekday(factors, weekday) ==
    IF weekday \in DOMAIN factors.weekday_factors
    THEN factors.weekday_factors[weekday] ELSE One

\* AadtFactorConfig.factor_for_month
factor_for_month(factors, month) ==
    IF IntStr[month] \in DOMAIN factors.month_factors
    THEN factors.month_factors[IntStr[month]] ELSE One

\* AadtFactorConfig.share_for_hour
share_for_hour(factors, hour) ==
    IF IntStr[hour] \in DOMAIN factors.hour_shares
    THEN factors.hour_shares[IntStr[hour]] ELSE One

\* "factors and timestamp": both are objects that are always true.
is_factored(timestamp, factors) ==
    factors # NoFactors /\ timestamp # NoTimestamp

\* The hour share with 0 replaced by 1.0.
hour_share_of(timestamp, factors) ==
    IF share_for_hour(factors, timestamp.hour) = Zero THEN One
    ELSE share_for_hour(factors, timestamp.hour)

\* scaling with the month factor left out.
scaling_without_month(timestamp, factors) ==
    IF is_factored(timestamp, factors)
    THEN RDiv(RMul(R(24, 1), factor_for_weekday(factors, timestamp.weekday)),
              hour_share_of(timestamp, factors))
    ELSE R(24, 1)

\* scaling: 24.0, or 24.0 * weekday_factor * month_factor / hour_share
scaling(timestamp, factors) ==
    IF is_factored(timestamp, factors)
    THEN RDiv(RMul(RMul(R(24, 1),
                        factor_for_weekday(factors, timestamp.weekday)),
                   factor_for_month(factors, timestamp.month)),
              hour_share_of(timestamp, factors))
    ELSE R(24, 1)

\* The entry of one direction: its hourly flow and its aadt.
direction_aadt(info, timestamp, factors) ==
    [hourly_flow |-> info.hourly_flow_veh_per_h,
     aadt |-> RMul(info.hourly_flow_veh_per_h, scaling(timestamp, factors))]

\* The result with its total, summed over the directions in dict order.
aadt_with_total(method, directions, order) ==
    [method |-> method,
     directions |-> directions,
     aadt_total |->
        SumSeq([k \in 1..Len(order) |-> directions[order[k]].aadt],
               Len(order))]

\* aadt.estimate_aadt on the timestamp of the recording, the flow summary
\* and the factor configuration.
estimate_aadt(timestamp, flow_summary, factors) ==
    aadt_with_total(
        IF is_factored(timestamp, factors) THEN "factored" ELSE "baseline",
        Eager([d \in DOMAIN flow_summary.directions |->
                  direction_aadt(flow_summary.directions[d],
                                 timestamp, factors)]),
        SortedSeq(DOMAIN flow_summary.directions))

\* ---------------------------------------------------------- pipeline.run

\* The three files of a recording directory.
RecordingFiles == {"recordingMeta.csv", "tracksMeta.csv", "tracks.csv"}

\* io.highd.load_recording on a recording directory: FileNotFoundError
\* when one of the three files is missing, ValueError when tracksMeta.csv
\* has no row, else the metadata and the rows. (The files of the model have
\* a metadata row, track rows and the required columns.)
load_recording(dir) ==
    IF ~(RecordingFiles \subseteq dir.files)
    THEN [error |-> "FileNotFoundError"]
    ELSE IF dir.tracks_meta = <<>>
    THEN [error |-> "ValueError"]
    ELSE [error |-> "",
          duration |-> dir.duration,
          frame_rate |-> dir.frame_rate,
          timestamp |-> dir.timestamp,
          lower_lane_markings |-> dir.lower_lane_markings,
          upper_lane_markings |-> dir.upper_lane_markings,
          segment_length_m |-> dir.segment_length_m,
          tracks_meta |-> dir.tracks_meta]

\* int(float(lane_value)) on the lane ids of the model.
LaneLiterals == "2" :> 2 @@ "2.0" :> 2 @@ "3" :> 3

\* structure._lane_count_from_markings
lane_count_from_markings(markings) ==
    IF Len(markings) - 1 > 0 THEN Len(markings) - 1 ELSE 0

\* structure._lane_count_from_lane_ids
lane_count_from_lane_ids(tracks_meta, direction) ==
    Cardinality({LaneLiterals[tracks_meta[k].laneId] :
        k \in {j \in 1..Len(tracks_meta) :
                  /\ direction_of(tracks_meta[j]).ok
                  /\ direction_of(tracks_meta[j]).v = direction
                  /\ Get(tracks_meta[j], "laneId") \in DOMAIN LaneLiterals}})

\* The lane count of one direction: from the markings, from the lane ids
\* when the markings give none.
direction_lane_count(markings, tracks_meta, direction) ==
    IF lane_count_from_markings(markings) = 0
       /\ lane_count_from_lane_ids(tracks_meta, direction) > 0
    THEN lane_count_from_lane_ids(tracks_meta, direction)
    ELSE lane_count_from_markings(markings)

\* structure.analyze_structure: the segment length (robust_segment_length
\* of the tracks, given with the recording) and the lane count of the
\* directions 1 and 2.
analyze_structure(recording) ==
    [segment_length_m |-> recording.segment_length_m,
     directions |->
        (1 :> [lane_count |->
                  direction_lane_count(recording.lower_lane_markings,
                                       recording.tracks_meta, 1)])
        @@ (2 :> [lane_count |->
                     direction_lane_count(recording.upper_lane_markings,
                                          recording.tracks_meta, 2)])]

\* length_m / 1609.344 if length_m else 0.0
length_miles(length_m) ==
    IF length_m # Zero THEN RDiv(length_m, R(1609344, 1000)) ELSE Zero

\* The input mapping of one direction of the structure.
directional_input(structure, aadt, direction) ==
    [lane_count |->
        R(IF structure.directions[direction].lane_count > 1
          THEN structure.directions[direction].lane_count ELSE 1, 1),
     segment_length_miles |-> length_miles(structure.segment_length_m),
     aadt |-> IF direction \in DOMAIN aadt.directions
              THEN aadt.directions[direction].aadt ELSE Zero]

\* directional_inputs of process, in the order of the structure's
\* directions.
directional_inputs(structure, aadt) ==
    [k \in 1..2 |-> directional_input(structure, aadt, k)]

VARIABLES
    globals,     \* the module's default tables
    source,      \* the rows and the config handed to from_files
    loadError,   \* "" or the exception from_files raised
    model,       \* the FreewaySpf instance, NoModel before and without one
    loaded,      \* the model and the globals as they were when loaded
    results,     \* the calls made whose outcome the caller still holds
    heap,        \* the dicts of the results held
    mutations,   \* how many writes the caller made into results
    profile,     \* the profile last built by from_row or fallback
    flowed,      \* the last summarize_flow call: its recording and result
    estimated,   \* the last estimate_aadt call: its arguments and result
    disk,        \* the files written under the output root, by path
    runs,        \* the process and process_all calls made, with outcomes
    processor,   \* the RecordingProcessor, NoProcessor before and without one
    batch        \* the process_all call made: its data root and its outcome

\* The state of the SPF model and of its caller.
core == <<globals, source, loadError, model, loaded, results, heap,
          mutations, profile>>

\* The state of the recording pipeline.
pipeline == <<flowed, estimated, disk, runs, processor, batch>>

vars == <<core, pipeline>>

NoModel == [none |-> TRUE]

NoProfile == [none |-> TRUE]

NoSource == [none |-> TRUE]

NoFlow == [none |-> TRUE]

NoEstimate == [none |-> TRUE]

NoProcessor == [none |-> TRUE]

NoBatch == [none |-> TRUE]

\* ------------------------------------------------------- bounded inputs

\* The largest number of rows of a tracksMeta file.
MaxTrackRows == 2

\* The largest number of process calls of one processor.
MaxRuns == 2

\* The largest number of entries of a data root.
MaxEntries == 3

MaxCoefRows == 2

MaxSevRows == 1

MaxDirs == 2

MaxHeld == 2

MaxMutations == 1

CoefRow(fac, area, coll, i, a, l, n) ==
    [facility |-> fac, area_type |-> area, collision_type |-> coll,
     intercept |-> i, aadt_exponent |-> a, length_exponent |-> l,
     lanes_exponent |-> n]

\* The coefficient rows tables are made of, in file order.
CoefRowPool ==
    << CoefRow("Freeway", "urban", "SV", "0.0", "1", "1", ""),
       CoefRow(" freeway ", "URBAN", "MV ", "-1.0", "1", "0", "1"),
       CoefRow("freeway", "Rural", " sv", "0", "1", "1", "-1"),
       CoefRow("freeway", "urban", "Total_FI", "0", "0", "1", NONE),
       CoefRow("freeway", "urban", "sv", "abc", "1", "1", "1") >>

SevRowPool ==
    << [facility |-> "Freeway", area_type |-> "urban",
        collision_type |-> "sv", k_share |-> "0.5"],
       [facility |-> "freeway", area_type |-> "URBAN",
        collision_type |-> "MV ", fi_share |-> "0.25", pdo_share |-> "0.75",
        o_cost |-> "20000"],
       [facility |-> " freeway ", area_type |-> "urban",
        collision_type |-> "sv", k_share |-> "-0.5", c_cost |-> "x"],
       [facility |-> "freeway", area_type |-> "urban",
        collision_type |-> "total_fi", k_share |-> "abc", o_share |-> "1.0",
        k_cost |-> "nan"] >>

\* The subsequences of a pool with at most n rows: a file holding some of
\* the pool's rows, in the pool's order.
RECURSIVE Pick(_, _)
Pick(pool, idx) ==
    IF idx = <<>> THEN <<>> ELSE <<pool[Head(idx)]>> \o Pick(pool, Tail(idx))

Tables(pool, n) ==
    {Pick(pool, SortedSeq(S)) :
        S \in {T \in SUBSET (1..Len(pool)) : Cardinality(T) <= n}}

ConfigPool ==
    { DefaultHsmConfig,
      [calibration_factor |-> R(2, 1),
       default_cmf        |-> R(1, 2),
       cmf_overrides      |-> [sv |-> R(3, 1)],
       overdispersion     |-> [alpha |-> R(4, 10), beta |-> R(-1, 2)]] }

\* One direction's input mapping.
InfoPool ==
    { [lane_count |-> R(2, 1), segment_length_miles |-> R(1, 2), aadt |-> R(2, 1)],
      [lane_count |-> R(3, 1), segment_length_miles |-> R(1, 2), aadt |-> R(0, 1)],
      [segment_length_miles |-> R(-1, 1), aadt |-> R(3, 1)] }

SeqsUpTo(S, n) == UNION {[1..m -> S] : m \in 0..n}

CallArgs ==
    { [facility |-> "Freeway", area_type |-> "URBAN"],
      [facility |-> "freeway", area_type |-> "rural"],
      [facility |-> "ramp", area_type |-> "urban"] }

Calls(infos, n) ==
    {[facility |-> a.facility, area_type |-> a.area_type,
      directional_inputs |-> d] : a \in CallArgs, d \in SeqsUpTo(infos, n)}

\* The severity rows from_row is applied to on its own: every combination
\* of these values of the share, override and cost fields (NONE: the row
\* has no such field).
ProfileRows ==
    {[facility |-> "Freeway", area_type |-> " urban", collision_type |-> "SV",
      k_share |-> k, a_share |-> a, b_share |-> b, c_share |-> c,
      o_share |-> o, fi_share |-> fi, pdo_share |-> pdo, k_cost |-> kc] :
        k \in {NONE, "0.5", "-0.5", "0"}, a \in {NONE, "0", "abc"},
        b \in {NONE, "0"}, c \in {NONE, "0"},
        o \in {NONE, "0", "1.0", "-1"}, fi \in {NONE, "0", "0.25", "-1"},
        pdo \in {NONE, "0", "0.75", "nan"}, kc \in {NONE, "20000", "x"}}

\* The keys a caller overwrites: one float of each dict of a result.
MutatedKeys == {"total", "k", "total_fi"}

\* The tables, configs and calls of the runs in which the caller holds
\* several results and writes into them.
HeldCoefTables == { <<CoefRowPool[1]>>, <<CoefRowPool[1], CoefRowPool[2]>> }

HeldSevTables == { <<SevRowPool[1]>> }

HeldCalls ==
    {[facility |-> a.facility, area_type |-> a.area_type,
      directional_inputs |-> d] :
        a \in {[facility |-> "Freeway", area_type |-> "URBAN"],
               [facility |-> "ramp", area_type |-> "urban"]},
        d \in {<<>>,
               <<[lane_count |-> R(2, 1), segment_length_miles |-> R(1, 2),
                  aadt |-> R(2, 1)]>>}}

\* The calls of the runs that look at the matching of rows: requests in
\* other letter case than the rows and with surrounding blanks, without
\* directions and with one.
MatchCalls ==
    {[facility |-> a.facility, area_type |-> a.area_type,
      directional_inputs |-> d] :
        a \in {[facility |-> "Freeway", area_type |-> "URBAN"],
               [facility |-> "FREEWAY", area_type |-> "Rural"],
               [facility |-> " freeway ", area_type |-> "urban"],
               [facility |-> "ramp", area_type |-> "urban"]},
        d \in {<<>>,
               <<[lane_count |-> R(2, 1), segment_length_miles |-> R(1, 2),
                  aadt |-> R(2, 1)]>>}}

\* The directions of the runs that look at the overdispersion parameter:
\* lengths above and below 1e-3, zero, negative and missing.
LengthInfoPool ==
    { [lane_count |-> R(2, 1), segment_length_miles |-> R(1, 2), aadt |-> R(2, 1)],
      [lane_count |-> R(2, 1), segment_length_miles |-> R(1, 2000), aadt |-> R(2, 1)],
      [lane_count |-> R(2, 1), segment_length_miles |-> R(0, 1), aadt |-> R(2, 1)],
      [lane_count |-> R(2, 1), segment_length_miles |-> R(-1, 1), aadt |-> R(2, 1)],
      [lane_count |-> R(2, 1), aadt |-> R(2, 1)] }

LengthCalls ==
    {[facility |-> "Freeway", area_type |-> "URBAN", directional_inputs |-> d] :
        d \in SeqsUpTo(LengthInfoPool, MaxDirs)}

\* Configurations with the default and with other overdispersion
\* parameters.
LengthConfigs ==
    ConfigPool \cup
    { [calibration_factor |-> R(1, 1),
       default_cmf        |-> R(1, 1),
       cmf_overrides      |-> <<>>,
       overdispersion     |-> [alpha |-> R(1, 1), beta |-> R(-1, 1)]] }

\* Configurations of either sign: the pool's, one with a negative
\* calibration factor and one with a negative CMF override.
SignConfigs ==
    ConfigPool \cup
    { [calibration_factor |-> R(-1, 1),
       default_cmf        |-> R(1, 1),
       cmf_overrides      |-> <<>>,
       overdispersion     |-> [alpha |-> R(4, 10), beta |-> R(-1, 2)]],
      [calibration_factor |-> R(1, 1),
       default_cmf        |-> R(1, 1),
       cmf_overrides      |-> [mv |-> R(-2, 1)],
       overdispersion     |-> [alpha |-> R(4, 10), beta |-> R(-1, 2)]] }

\* The rows of tracksMeta.csv as csv.DictReader hands them over: every
\* column of the header is a key, with a string or, in a short row, None.
TrackMetaRowPool ==
    {[id |-> i, drivingDirection |-> d, class |-> c] :
        i \in {"7", "8", NONE}, d \in {"1", "2", " 1 ", "x", NONE},
        c \in {"Car", "TRUCK"}}

\* The recordings summarize_flow is applied to: a duration and the rows.
FlowRecordings ==
    {[duration |-> t, frame_rate |-> f, tracks_meta |-> rows] :
        t \in {R(0, 1), R(-60, 1), R(7200, 1)},
        f \in {R(25, 1), Zero},
        rows \in SeqsUpTo(TrackMetaRowPool, MaxTrackRows)}

\* The recordings whose flow is scaled to an AADT.
AadtRecordings ==
    {[duration |-> R(1800, 1), frame_rate |-> R(25, 1), tracks_meta |-> rows] :
        rows \in SeqsUpTo({[id |-> i, drivingDirection |-> d, class |-> "Car"] :
                              i \in {"7", "8"}, d \in {"1", "2"}},
                          MaxTrackRows)}

\* The timestamps of the recordings: none, or a weekday, a month and an
\* hour.
Timestamps ==
    {NoTimestamp,
     [weekday |-> "Mon", month |-> 3, hour |-> 8],
     [weekday |-> "Sat", month |-> 11, hour |-> 14]}

\* The factor configurations: none, or tables that have or lack the keys
\* of the timestamps ("03" is not the key of month 3).
FactorConfigs ==
    {NoFactors} \cup
    {[weekday_factors |-> w, month_factors |-> m, hour_shares |-> h] :
        w \in {<<>>, "Mon" :> R(11, 10)},
        m \in {<<>>, "3" :> R(9, 10), "03" :> R(9, 10)},
        h \in {<<>>, "8" :> R(1, 20), "8" :> Zero @@ "14" :> R(1, 10)}}

\* A recording directory that processes: two vehicles, one per direction.
GoodRecording ==
    [files |-> RecordingFiles,
     duration |-> R(1800, 1),
     frame_rate |-> R(25, 1),
     timestamp |-> [weekday |-> "Mon", month |-> 3, hour |-> 8],
     lower_lane_markings |-> <<R(8, 1), R(12, 1), R(16, 1)>>,
     upper_lane_markings |-> <<R(20, 1), R(24, 1), R(28, 1)>>,
     segment_length_m |-> R(402336, 1000),
     tracks_meta |->
        <<[id |-> "7", drivingDirection |-> "1", class |-> "Car",
           laneId |-> "2"],
          [id |-> "8", drivingDirection |-> "2", class |-> "Truck",
           laneId |-> "3"]>>]

\* The recording directories process is applied to: the good one; one
\* without timestamp, lower markings and length whose vehicle has two
\* rows; one without tracks.csv; one with an empty tracksMeta.csv; one
\* with a frame rate of 0; one whose rows have no driving direction.
RecordingDirs ==
    { GoodRecording,
      [GoodRecording EXCEPT
          !.timestamp = NoTimestamp,
          !.lower_lane_markings = <<>>,
          !.segment_length_m = Zero,
          !.tracks_meta =
             <<[id |-> "7", drivingDirection |-> "1", class |-> "Car",
                laneId |-> "2"],
               [id |-> "7", drivingDirection |-> " 1 ", class |-> "Car",
                laneId |-> "2.0"]>>],
      [GoodRecording EXCEPT
          !.files = {"recordingMeta.csv", "tracksMeta.csv"}],
      [GoodRecording EXCEPT !.tracks_meta = <<>>],
      [GoodRecording EXCEPT !.frame_rate = Zero],
      [GoodRecording EXCEPT
          !.tracks_meta =
             <<[id |-> "7", drivingDirection |-> "x", class |-> "Car",
                laneId |-> NONE]>>] }

\* The output directories.
OutputDirs == {"out/a", "out/b"}

\* The pipeline configurations, as PipelineConfig normalizes them.
PipelineConfigs ==
    {[facility |-> f, area_type |-> "urban", output_reports |-> r] :
        f \in {"freeway", "ramp"}, r \in BOOLEAN}

\* The factor configurations of the processors.
ProcessorFactors ==
    {NoFactors,
     [weekday_factors |-> "Mon" :> R(11, 10),
      month_factors |-> "3" :> R(9, 10),
      hour_shares |-> "8" :> R(1, 20)]}

\* A second coefficient row for (freeway, urban, sv), with other
\* coefficients than the first row of the pool.
RepeatedCoefRow == CoefRow(" freeway ", "URBAN", " sv", "-1.0", "1", "0", "1")

\* Coefficient files with two rows for one collision type, in both orders
\* and with another collision type between them, and one without.
RepeatedCoefTables ==
    { <<CoefRowPool[1], RepeatedCoefRow>>,
      <<RepeatedCoefRow, CoefRowPool[1]>>,
      <<CoefRowPool[1], CoefRowPool[2], RepeatedCoefRow>>,
      <<CoefRowPool[1]>> }

\* Severity files with two rows for (freeway, urban, sv), in both orders,
\* with one and with none.
RepeatedSevTables ==
    { <<SevRowPool[1], SevRowPool[3]>>, <<SevRowPool[3], SevRowPool[1]>>,
      <<SevRowPool[1]>>, <<>> }

\* The calls on the tables with repeated rows.
RepeatedCalls ==
    {[facility |-> "Freeway", area_type |-> "URBAN", directional_inputs |-> d] :
        d \in SeqsUpTo(InfoPool, MaxDirs)}

\* sorted() on the names of the model: their order as strings ("10" is
\* before "2", "B" before "a").
NameOrder == <<"10", "2", "B", "a">>

\* A data root that does not exist.
NoRoot == [missing |-> TRUE]

\* The entries of a data root: a plain file, a directory without
\* recordingMeta.csv, recordings that process, and recordings whose
\* processing raises (no tracks.csv, a frame rate of 0).
EntryPool ==
    { [file |-> TRUE],
      [GoodRecording EXCEPT !.files = {"tracksMeta.csv", "tracks.csv"}],
      GoodRecording,
      [GoodRecording EXCEPT !.timestamp = NoTimestamp,
                            !.segment_length_m = Zero],
      [GoodRecording EXCEPT !.files = {"recordingMeta.csv", "tracksMeta.csv"}],
      [GoodRecording EXCEPT !.frame_rate = Zero] }

\* The data roots: none, or up to MaxEntries entries under the names.
DataRoots ==
    {NoRoot} \cup
    UNION {[names -> EntryPool] :
              names \in {N \in SUBSET {NameOrder[k] : k \in 1..Len(NameOrder)} :
                            Cardinality(N) <= MaxEntries}}

\* The value a caller writes into a result it holds.
Poison == R(-99, 1)

\* -------------------------------------------------------------- actions

Init ==
    /\ globals = ModuleGlobals
    /\ source = NoSource
    /\ loadError = ""
    /\ model = NoModel
    /\ loaded = NoModel
    /\ results = <<>>
    /\ heap = <<>>
    /\ mutations = 0
    /\ profile = NoProfile
    /\ flowed = NoFlow
    /\ estimated = NoEstimate
    /\ disk = <<>>
    /\ runs = <<>>
    /\ processor = NoProcessor
    /\ batch = NoBatch

\* SeverityProfile.from_row(row)
BuildFromRow ==
    /\ profile = NoProfile
    /\ \E row \in ProfileRows :
          profile' = [how |-> "from_row", row |-> row,
                      built |-> from_row(row, globals)]
    /\ UNCHANGED <<globals, source, loadError, model, loaded, results, heap,
                   mutations>>
    /\ UNCHANGED pipeline

\* SeverityProfile.fallback(facility, area_type, collision_type)
BuildFallback ==
    /\ profile = NoProfile
    /\ \E f \in {"freeway", "ramp"}, a \in {"urban", "rural"},
          c \in {"sv", "mv", "total_fi"} :
          profile' = [how |-> "fallback",
                      row |-> [facility |-> f, area_type |-> a,
                               collision_type |-> c],
                      built |-> fallback(f, a, c, globals)]
    /\ UNCHANGED <<globals, source, loadError, model, loaded, results, heap,
                   mutations>>
    /\ UNCHANGED pipeline

\* The caller's state after from_files returned or raised.
Loaded(cr, sr, cfg, out) ==
    /\ source' = [coefficient_rows |-> cr, severity_rows |-> sr,
                  config |-> cfg]
    /\ loadError' = out.error
    /\ model' = IF out.error = "" THEN out.model ELSE NoModel
    /\ loaded' = IF out.error = ""
                 THEN [model |-> out.model, globals |-> globals]
                 ELSE NoModel

\* model = FreewaySpf.from_files(coefficients_path, severity_path, config),
\* once, with the files' rows drawn from the given tables.
Load(coefTables, sevTables, configs) ==
    /\ model = NoModel
    /\ loadError = ""
    /\ \E cr \in coefTables, sr \in sevTables, cfg \in configs :
          Loaded(cr, sr, cfg, from_files(cr, sr, cfg, globals))
    /\ UNCHANGED <<globals, results, heap, mutations, profile>>
    /\ UNCHANGED pipeline

\* predict consuming the CMF overrides of the model's config.
predict_effect_consuming_overrides(m, G, call) ==
    [model   |-> [m EXCEPT !.config.cmf_overrides = <<>>],
     globals |-> G,
     values  |-> predict_values(m, G, call)]

\* What a predict call does to the model and the module, and what it
\* computes: predict assigns to no attribute of self and to no global.
predict_effect(m, G, call) ==
    [model |-> m, globals |-> G, values |-> predict_values(m, G, call)]

\* The heap with the dicts of a successful call at the addresses A.
stored(h, v, A, n) ==
    [heap  |-> result_objects(v, A, n) @@ h,
     root  |-> A[4 * n + 3],
     addrs |-> {A[i] : i \in 1..(4 * n + 4)}]

\* The dicts of a successful call are new objects.
store(h, v) ==
    stored(h, v, new_addresses(h, 4 * Len(v.keys) + 4), Len(v.keys))

Raised(call, error) ==
    /\ heap' = heap
    /\ results' = Append(results,
          [call |-> call, error |-> error, root |-> 0, addrs |-> {},
           returned |-> <<>>, mutated |-> FALSE])

Returned(call, st) ==
    /\ heap' = st.heap
    /\ results' = Append(results,
          [call |-> call, error |-> "", root |-> st.root,
           addrs |-> st.addrs, returned |-> Deref(st.heap, st.root),
           mutated |-> FALSE])

Called(call, eff) ==
    /\ model' = eff.model
    /\ globals' = eff.globals
    /\ IF eff.values.error # ""
       THEN Raised(call, eff.values.error)
       ELSE Returned(call, store(heap, eff.values))

\* model.predict(facility=..., area_type=..., directional_inputs=...),
\* while the caller holds fewer than cap results.
Predict(calls, cap) ==
    /\ model # NoModel
    /\ Len(results) < cap
    /\ \E call \in calls : Called(call, predict_effect(model, globals, call))
    /\ UNCHANGED <<source, loadError, loaded, mutations, profile>>
    /\ UNCHANGED pipeline

\* The caller drops the i-th result it holds; its dicts are collected.
Release(i) ==
    /\ i \in 1..Len(results)
    /\ results' = [j \in 1..(Len(results) - 1) |->
                     IF j < i THEN results[j] ELSE results[j + 1]]
    /\ heap' = [a \in DOMAIN heap \ results[i].addrs |-> heap[a]]
    /\ UNCHANGED <<globals, source, loadError, model, loaded, mutations,
                   profile>>
    /\ UNCHANGED pipeline

\* The caller overwrites one float of a dict of the i-th result it holds,
\* the returned dict or one nested in it.
Mutate(i) ==
    /\ i \in 1..Len(results)
    /\ results[i].error = ""
    /\ mutations < MaxMutations
    /\ \E a \in Reach(heap, {results[i].root}, {}) \cap DOMAIN heap :
          \E key \in {k \in DOMAIN heap[a] \cap MutatedKeys :
                         "f" \in DOMAIN heap[a][k]} :
             heap' = [heap EXCEPT ![a][key] = [f |-> Poison]]
    /\ results' = [results EXCEPT ![i].mutated = TRUE]
    /\ mutations' = mutations + 1
    /\ UNCHANGED <<globals, source, loadError, model, loaded, profile>>
    /\ UNCHANGED pipeline

\* ------------------------------------------------------- specifications

\* The loader and the predictor: one load, then predict calls, the caller
\* holding one result at a time.
LoadTables ==
    Load(Tables(CoefRowPool, MaxCoefRows), Tables(SevRowPool, MaxSevRows),
         ConfigPool)

PredictOne == Predict(Calls(InfoPool, MaxDirs), 1)

ReleaseAny == \E i \in 1..Len(results) : Release(i)

Next == LoadTables \/ PredictOne \/ ReleaseAny

Spec == Init /\ [][Next]_vars

\* One load, then predict calls of a caller that holds up to MaxHeld
\* results, writes into them and drops them.
LoadHeld == Load(HeldCoefTables, HeldSevTables, ConfigPool)

PredictHeld == Predict(HeldCalls, MaxHeld)

MutateAny == \E i \in 1..Len(results) : Mutate(i)

NextCalls == LoadHeld \/ PredictHeld \/ MutateAny \/ ReleaseAny

SpecCalls == Init /\ [][NextCalls]_vars

\* One load, then predict calls whose facility and area_type differ from
\* the rows' in letter case and surrounding blanks.
PredictMatch == Predict(MatchCalls, 1)

NextMatch == LoadTables \/ PredictMatch \/ ReleaseAny

SpecMatch == Init /\ [][NextMatch]_vars

\* One load, then predict calls over directions of all kinds of length.
LoadLengths == Load(HeldCoefTables, HeldSevTables, LengthConfigs)

PredictLengths == Predict(LengthCalls, 1)

NextLengths == LoadLengths \/ PredictLengths \/ ReleaseAny

SpecLengths == Init /\ [][NextLengths]_vars

\* One load under a configuration of either sign, then predict calls.
LoadSigns == Load(Tables(CoefRowPool, MaxCoefRows), HeldSevTables, SignConfigs)

PredictSigns == Predict(Calls(InfoPool, 1), 1)

NextSigns == LoadSigns \/ PredictSigns \/ ReleaseAny

SpecSigns == Init /\ [][NextSigns]_vars

\* flow = summarize_flow(recording)
Summarize(recordings) ==
    /\ flowed = NoFlow
    /\ \E recording \in recordings :
          flowed' = [recording |-> recording,
                     result |-> summarize_flow(recording)]
    /\ UNCHANGED <<core, estimated, disk, runs, processor, batch>>

\* aadt = estimate_aadt(recording, flow, factors)
Estimate ==
    /\ flowed # NoFlow
    /\ flowed.result.raised = ""
    /\ estimated = NoEstimate
    /\ \E timestamp \in Timestamps, factors \in FactorConfigs :
          estimated' = [timestamp |-> timestamp,
                        factors |-> factors,
                        result |-> estimate_aadt(timestamp, flowed.result,
                                                 factors)]
    /\ UNCHANGED <<core, flowed, disk, runs, processor, batch>>

\* summarize_flow on its own.
SummarizeAny == Summarize(FlowRecordings)
SpecFlow == Init /\ [][SummarizeAny]_vars

\* summarize_flow, then estimate_aadt on its result.
SummarizeForAadt == Summarize(AadtRecordings)
NextAadt == SummarizeForAadt \/ Estimate
SpecAadt == Init /\ [][NextAadt]_vars

\* The dict predict returns, as a value.
returned_prediction(st) == Deref(st.heap, st.root)

\* The files of a successful call with reports written whatever
\* output_reports is.
written_files_with_reports(output_reports) ==
    <<"structure.json", "flow.json", "aadt.json", "hsm_prediction.json",
      "report.md", "report.html">>

\* The files a successful call writes, in the order of the writes.
written_files(output_reports) ==
    <<"structure.json", "flow.json", "aadt.json", "hsm_prediction.json">>
    \o (IF output_reports THEN <<"report.md", "report.html">> ELSE <<>>)

\* A call of process that raises: whether the output directory was
\* ensured before, and no file written.
process_raised(error, created, m, G) ==
    [error |-> error, created |-> created, written |-> <<>>,
     returned |-> <<>>, model |-> m, globals |-> G]

\* process writing structure.json, flow.json and aadt.json before the
\* predict call.
process_predicted_writing_before_predict(p, structure, flow, aadt, eff) ==
    IF eff.values.error # ""
    THEN [error |-> eff.values.error, created |-> TRUE,
          written |-> <<"structure.json", "flow.json", "aadt.json">>,
          returned |-> <<>>, model |-> eff.model, globals |-> eff.globals]
    ELSE [error |-> "", created |-> TRUE,
          written |-> written_files(p.pipeline_config.output_reports),
          returned |->
             [structure |-> structure, flow |-> flow, aadt |-> aadt,
              hsm_prediction |->
                 returned_prediction(store(<<>>, eff.values))],
          model |-> eff.model, globals |-> eff.globals]

\* process from the predict call on: the writes and the mapping returned.
process_predicted(p, structure, flow, aadt, eff) ==
    IF eff.values.error # ""
    THEN process_raised(eff.values.error, TRUE, eff.model, eff.globals)
    ELSE [error |-> "", created |-> TRUE,
          written |-> written_files(p.pipeline_config.output_reports),
          returned |->
             [structure |-> structure, flow |-> flow, aadt |-> aadt,
              hsm_prediction |->
                 returned_prediction(store(<<>>, eff.values))],
          model |-> eff.model, globals |-> eff.globals]

process_estimated(p, m, G, structure, flow, aadt) ==
    process_predicted(p, structure, flow, aadt,
        predict_effect(m, G,
            [facility |-> p.pipeline_config.facility,
             area_type |-> p.pipeline_config.area_type,
             directional_inputs |-> directional_inputs(structure, aadt)]))

process_summarized(p, m, G, recording, structure, flow) ==
    IF flow.raised # ""
    THEN process_raised(flow.raised, TRUE, m, G)
    ELSE process_estimated(p, m, G, structure, flow,
             estimate_aadt(recording.timestamp, flow, p.aadt_config))

process_loaded(p, m, G, recording) ==
    IF recording.error # ""
    THEN process_raised(recording.error, FALSE, m, G)
    ELSE process_summarized(p, m, G, recording,
                            analyze_structure(recording),
                            summarize_flow(recording))

\* RecordingProcessor.process on a recording directory: the exception it
\* raises or the mapping it returns, the files it writes, and what predict
\* does to the model.
process_values(p, m, G, dir) ==
    process_loaded(p, m, G, load_recording(dir))

\* The disk after a call wrote the files into the output directory: each
\* file holds what the call numbered run wrote.
write_files(d, out, written, run) ==
    (out :> ([f \in {written[k] : k \in 1..Len(written)} |-> run]
             @@ (IF out \in DOMAIN d THEN d[out] ELSE <<>>)))
    @@ d

\* sorted(root.iterdir()): the names of the entries of the data root, in
\* sorted order.
RECURSIVE sorted_entries(_, _)
sorted_entries(root, k) ==
    IF k = 0 THEN <<>>
    ELSE IF NameOrder[k] \in DOMAIN root
    THEN Append(sorted_entries(root, k - 1), NameOrder[k])
    ELSE sorted_entries(root, k - 1)

\* candidate.is_dir()
is_dir(entry) == "files" \in DOMAIN entry

\* iter_recordings yielding every directory, with or without
\* recordingMeta.csv.
iter_recordings_every_directory(root) ==
    SelectSeq(sorted_entries(root, Len(NameOrder)),
              LAMBDA name : is_dir(root[name]))

\* io.highd.iter_recordings: the directories of the root that hold
\* recordingMeta.csv, in sorted order.
iter_recordings(root) ==
    SelectSeq(sorted_entries(root, Len(NameOrder)),
              LAMBDA name : /\ is_dir(root[name])
                            /\ "recordingMeta.csv" \in root[name].files)

\* ensure_output_directory(path): the directory is there afterwards, with
\* the files it had.
ensure_output_directory(d, path) ==
    IF path \in DOMAIN d THEN d ELSE (path :> <<>>) @@ d

\* The loop body of process_all: results[name] = processor.process(dir,
\* output_root / name), pv being what the process call does.
batch_step(st, name, out, dir, pv) ==
    [model |-> pv.model,
     globals |-> pv.globals,
     disk |-> IF pv.created
              THEN write_files(st.disk, out, pv.written, Len(st.runs) + 1)
              ELSE st.disk,
     runs |-> Append(st.runs,
                 [recording |-> dir, output_dir |-> out, error |-> pv.error,
                  written |-> pv.written, returned |-> pv.returned]),
     results |-> IF pv.error = "" THEN (name :> pv.returned) @@ st.results
                 ELSE st.results,
     error |-> pv.error]

\* The loop of process_all from the k-th recording on: an exception of
\* process ends it.
RECURSIVE process_each(_, _, _, _, _, _)
process_each(p, st, root, output_root, names, k) ==
    IF k > Len(names) \/ st.error # "" THEN st
    ELSE process_each(
            p,
            batch_step(st, names[k], <<output_root, names[k]>>,
                       root[names[k]],
                       process_values(p, st.model, st.globals,
                                      root[names[k]])),
            root, output_root, names, k + 1)

\* run.process_all: the output root is ensured, then the recordings are
\* processed in turn; root.iterdir() raises FileNotFoundError without the
\* data root.
process_all(p, m, G, d, rs, root, output_root) ==
    IF root = NoRoot
    THEN [model |-> m, globals |-> G,
          disk |-> ensure_output_directory(d, <<output_root>>),
          runs |-> rs, results |-> <<>>, error |-> "FileNotFoundError"]
    ELSE process_each(p,
            [model |-> m, globals |-> G,
             disk |-> ensure_output_directory(d, <<output_root>>),
             runs |-> rs, results |-> <<>>, error |-> ""],
            root, output_root, iter_recordings(root), 1)


\* processor = RecordingProcessor(pipeline_config, None, aadt_config): the
\* model is loaded from the coefficient files with the default HsmConfig;
\* there is no processor when from_files raises.
Construct(coefTables, sevTables) ==
    /\ processor = NoProcessor
    /\ model = NoModel
    /\ loadError = ""
    /\ \E pc \in PipelineConfigs, ac \in ProcessorFactors,
          cr \in coefTables, sr \in sevTables :
          /\ Loaded(cr, sr, DefaultHsmConfig,
                    from_files(cr, sr, DefaultHsmConfig, globals))
          /\ processor' =
                IF from_files(cr, sr, DefaultHsmConfig, globals).error = ""
                THEN [pipeline_config |-> pc, aadt_config |-> ac]
                ELSE NoProcessor
    /\ UNCHANGED <<globals, results, heap, mutations, profile>>
    /\ UNCHANGED <<flowed, estimated, disk, runs, batch>>

\* The caller's state after process returned or raised.
Processed(dir, out, pv) ==
    /\ model' = pv.model
    /\ globals' = pv.globals
    /\ disk' = IF pv.created
               THEN write_files(disk, out, pv.written, Len(runs) + 1)
               ELSE disk
    /\ runs' = Append(runs,
          [recording |-> dir, output_dir |-> out, error |-> pv.error,
           written |-> pv.written, returned |-> pv.returned])

\* processor.process(recording_path, output_dir)
Process(dirs) ==
    /\ processor # NoProcessor
    /\ Len(runs) < MaxRuns
    /\ \E dir \in dirs, out \in OutputDirs :
          Processed(dir, out, process_values(processor, model, globals, dir))
    /\ UNCHANGED <<source, loadError, loaded, results, heap, mutations,
                   profile>>
    /\ UNCHANGED <<flowed, estimated, processor, batch>>

\* A processor and its process calls.
ConstructAny ==
    Construct(HeldCoefTables \cup {<<CoefRowPool[5]>>}, HeldSevTables)
ProcessAny == Process(RecordingDirs)
NextProcess == ConstructAny \/ ProcessAny
SpecProcess == Init /\ [][NextProcess]_vars

\* One load of files with repeated rows, then predict calls.
LoadRepeated == Load(RepeatedCoefTables, RepeatedSevTables, {DefaultHsmConfig})

PredictRepeated == Predict(RepeatedCalls, 1)

NextRepeated == LoadRepeated \/ PredictRepeated \/ ReleaseAny

SpecRepeated == Init /\ [][NextRepeated]_vars

\* The caller's state after process_all returned or raised: the mapping
\* is returned only without an exception.
Batched(root, output_root, done) ==
    /\ model' = done.model
    /\ globals' = done.globals
    /\ disk' = done.disk
    /\ runs' = done.runs
    /\ batch' = [data_root |-> root, output_root |-> output_root,
                 error |-> done.error,
                 returned |-> IF done.error = "" THEN done.results ELSE <<>>]

\* process_all(data_root, output_root, processor)
ProcessAll(roots) ==
    /\ processor # NoProcessor
    /\ batch = NoBatch
    /\ \E root \in roots :
          Batched(root, "out",
                  process_all(processor, model, globals, disk, runs, root,
                              "out"))
    /\ UNCHANGED <<source, loadError, loaded, results, heap, mutations,
                   profile>>
    /\ UNCHANGED <<flowed, estimated, processor>>

\* A processor and one process_all call.
ProcessAllRoots == ProcessAll(DataRoots)
NextBatch == ConstructAny \/ ProcessAllRoots
SpecBatch == Init /\ [][NextBatch]_vars

\* from_row and fallback on their own.
NextProfile == BuildFromRow \/ BuildFallback

SpecProfile == Init /\ [][NextProfile]_vars

\* --------------------------------------------------------------- claims

\* C1: every severity profile built by from_row or by fallback has its
\* five KABCO shares >= 0 and summing to 1.
C1_SharesNonNegativeSumToOne ==
    profile # NoProfile =>
        /\ \A l \in Levels : RLe(Zero, profile.built.kabco_shares[l])
        /\ Sum5(profile.built.kabco_shares) = One

\* The results the caller holds that predict returned (no exception).
OkResults == {i \in 1..Len(results) : results[i].error = ""}

\* The keys of a returned dict that hold a collision type's summary.
SummaryKeys(i) == DOMAIN results[i].returned \ AggregateKeys

\* The summary a returned dict holds under a collision type.
Summary(i, key) == results[i].returned[key].d

\* k + a + b + c + o of a dict of five floats.
LevelSum(d) ==
    RAdd(RAdd(RAdd(RAdd(d.k.f, d.a.f), d.b.f), d.c.f), d.o.f)

\* The loaded coefficient table has a row for the call's facility and
\* area type.
HasRowFor(call) ==
    \E k \in 1..Len(model.coefficients) :
        /\ model.coefficients[k].facility = Lower(call.facility)
        /\ model.coefficients[k].area_type = Lower(call.area_type)

\* The collision types with a coefficient row for the call's facility and
\* area type.
CollisionTypesFor(call) ==
    {model.coefficients[k].collision_type :
        k \in {j \in 1..Len(model.coefficients) :
                 /\ model.coefficients[j].facility = Lower(call.facility)
                 /\ model.coefficients[j].area_type = Lower(call.area_type)}}

\* C2: in every result predict returns, fi + pdo = total for every
\* collision type in it.
C2_FiPlusPdoIsTotal ==
    \A i \in OkResults : \A key \in SummaryKeys(i) :
        RAdd(Summary(i, key).fi.f, Summary(i, key).pdo.f)
            = Summary(i, key).total.f

\* C2's case: a returned result with a collision type of non-zero fi and
\* pdo, summed over two directions.
C2_Witness ==
    \E i \in OkResults : \E key \in SummaryKeys(i) :
        /\ Len(results[i].call.directional_inputs) = 2
        /\ Summary(i, key).fi.f # Zero
        /\ Summary(i, key).pdo.f # Zero
        /\ Len(model.severity_profiles) > 0

\* C3: in every result predict returns, each collision type's five kabco
\* values sum to its total and its five economic_loss.by_severity values to
\* its economic_loss.total; the run-level by_severity values sum to the
\* run-level economic_loss.total.
C3_SeveritySumsAreTotals ==
    \A i \in OkResults :
        /\ \A key \in SummaryKeys(i) :
              /\ LevelSum(Summary(i, key).kabco.d) = Summary(i, key).total.f
              /\ LevelSum(Summary(i, key).economic_loss.d.by_severity.d)
                    = Summary(i, key).economic_loss.d.total.f
        /\ LevelSum(results[i].returned.economic_loss.d.by_severity.d)
              = results[i].returned.economic_loss.d.total.f

\* C3's case: a returned result with a non-zero run-level economic loss
\* and a collision type of non-zero total.
C3_Witness ==
    \E i \in OkResults :
        /\ results[i].returned.economic_loss.d.total.f # Zero
        /\ \E key \in SummaryKeys(i) : Summary(i, key).total.f # Zero

\* C4: a predict call for a facility and area type without a coefficient
\* row raises KeyError and returns nothing, and loading a table never fails
\* for the pairs it lacks: it fails only on a row that does not parse.
C4_MissingCoefficientsRaise ==
    /\ \A i \in 1..Len(results) :
          ~HasRowFor(results[i].call) =>
              /\ results[i].error = "KeyError"
              /\ results[i].addrs = {}
              /\ results[i].returned = <<>>
    /\ (source # NoSource
        /\ \A k \in 1..Len(source.coefficient_rows) :
              CoefficientRowParses(source.coefficient_rows[k]))
          => (loadError = "" /\ model # NoModel)

\* C4's case: a loaded model with rows, and a call for a pair it has no
\* row for.
C4_Witness ==
    /\ model # NoModel
    /\ Len(model.coefficients) > 0
    /\ \E i \in 1..Len(results) :
          ~HasRowFor(results[i].call) /\ results[i].error = "KeyError"

\* A loaded severity profile matches the call's facility and area type
\* and the collision type.
HasProfileFor(call, collision) ==
    \E k \in 1..Len(model.severity_profiles) :
        /\ model.severity_profiles[k].facility = Lower(call.facility)
        /\ model.severity_profiles[k].area_type = Lower(call.area_type)
        /\ model.severity_profiles[k].collision_type = collision

\* The default profile of the documentation: the shares, and the costs
\* 11,000,000, 1,500,000, 450,000, 120,000 and 10,000 in units of 10,000.
DocumentedShares ==
    [k |-> R(2, 100), a |-> R(6, 100), b |-> R(12, 100), c |-> R(20, 100),
     o |-> R(60, 100)]

DocumentedCosts ==
    [k |-> R(1100, 1), a |-> R(150, 1), b |-> R(45, 1), c |-> R(12, 1),
     o |-> R(1, 1)]

\* C5: a collision type with a coefficient row and no matching severity
\* profile is decomposed with the default profile exactly (shares 0.02,
\* 0.06, 0.12, 0.20, 0.60, fi 0.40, pdo 0.60, default costs), and the call
\* raises no error.
C5_FallbackIsDefaultProfile ==
    \A i \in 1..Len(results) :
        HasRowFor(results[i].call) =>
            /\ results[i].error = ""
            /\ \A key \in SummaryKeys(i) :
                  ~HasProfileFor(results[i].call, key) =>
                      /\ Summary(i, key).fi.f
                            = RMul(Summary(i, key).total.f, R(40, 100))
                      /\ Summary(i, key).pdo.f
                            = RMul(Summary(i, key).total.f, R(60, 100))
                      /\ \A l \in Levels :
                            /\ Summary(i, key).kabco.d[l].f
                                  = RMul(Summary(i, key).total.f,
                                         DocumentedShares[l])
                            /\ Summary(i, key).economic_loss.d.by_severity.d[l].f
                                  = RMul(RMul(Summary(i, key).total.f,
                                              DocumentedShares[l]),
                                         DocumentedCosts[l])

\* C5's case: a model with a loaded severity profile, and a returned result
\* with a collision type of non-zero total that no loaded profile matches.
C5_Witness ==
    /\ model # NoModel
    /\ Len(model.severity_profiles) > 0
    /\ \E i \in OkResults : \E key \in SummaryKeys(i) :
          /\ ~HasProfileFor(results[i].call, key)
          /\ Summary(i, key).total.f # Zero

\* A direction whose aadt, segment_length_miles or lane_count is zero,
\* negative or absent.
Degenerate(info) ==
    \/ "aadt" \notin DOMAIN info
    \/ "segment_length_miles" \notin DOMAIN info
    \/ "lane_count" \notin DOMAIN info
    \/ RLe(info.aadt, Zero)
    \/ RLe(info.segment_length_miles, Zero)
    \/ RLe(info.lane_count, Zero)

NotDegenerate(info) == ~Degenerate(info)

\* The call without its degenerate directions.
WithoutDegenerate(call) ==
    [call EXCEPT !.directional_inputs = SelectSeq(@, NotDegenerate)]

\* The value of the dict a call returned into an empty heap.
ValueAt(st) == Deref(st.heap, st.root)

\* What predict returns for a call on the loaded model, as a value.
ValueOf(call) == ValueAt(store(<<>>, predict_values(model, globals, call)))

\* A returned value without its k_overdispersion entry.
WithoutOverdispersion(value) ==
    [key \in DOMAIN value \ {"k_overdispersion"} |-> value[key]]

\* Two returned values agree on every entry but k_overdispersion.
SameButOverdispersion(v, w) ==
    WithoutOverdispersion(v) = WithoutOverdispersion(w)

\* C6: a degenerate direction contributes exactly 0.0: the call raises no
\* error, and every collision type's summary and every run-level total is
\* what the call without its degenerate directions returns
\* (k_overdispersion, computed from the lengths, is left aside).
C6_DegenerateDirectionAddsZero ==
    \A i \in 1..Len(results) :
        HasRowFor(results[i].call) =>
            /\ results[i].error = ""
            /\ SameButOverdispersion(
                  results[i].returned,
                  ValueOf(WithoutDegenerate(results[i].call)))

\* C6's case: a returned result of a call with a degenerate direction and
\* another direction of non-zero contribution.
C6_Witness ==
    \E i \in OkResults :
        /\ \E j \in 1..Len(results[i].call.directional_inputs) :
              Degenerate(results[i].call.directional_inputs[j])
        /\ \E key \in SummaryKeys(i) : Summary(i, key).total.f # Zero

\* An entry of a returned dict is a collision summary: a dict with fi, pdo,
\* total, kabco and economic_loss.
IsSummary(entry) ==
    /\ "d" \in DOMAIN entry
    /\ DOMAIN entry.d = {"fi", "pdo", "total", "kabco", "economic_loss"}

\* A collision summary whose values are all 0.0.
IsZeroSummary(entry) ==
    /\ IsSummary(entry)
    /\ entry.d.fi.f = Zero /\ entry.d.pdo.f = Zero /\ entry.d.total.f = Zero
    /\ entry.d.economic_loss.d.total.f = Zero
    /\ \A l \in Levels :
          /\ entry.d.kabco.d[l].f = Zero
          /\ entry.d.economic_loss.d.by_severity.d[l].f = Zero

\* C7: in every returned result, each collision type with a coefficient
\* row for the call's facility and area type is a key of the result, with
\* an all-zero summary when directional_inputs is empty; the key set is the
\* same for all directional inputs.
C7_EveryCollisionTypeAppears ==
    \A i \in OkResults :
        /\ DOMAIN results[i].returned
              = AggregateKeys \cup CollisionTypesFor(results[i].call)
        /\ Len(results[i].call.directional_inputs) = 0 =>
              \A c \in CollisionTypesFor(results[i].call) :
                  IsZeroSummary(results[i].returned[c])

\* A value of a csv field that is present and is not a number.
Malformed(value) == value \in {"abc", "x"}

MalformedCoefficientRow(row) ==
    \E f \in {"intercept", "aadt_exponent", "length_exponent",
              "lanes_exponent"} : Malformed(Get(row, f))

MalformedSeverityRow(row) ==
    \E f \in {"k_share", "a_share", "b_share", "c_share", "o_share",
              "fi_share", "pdo_share", "k_cost", "a_cost", "b_cost",
              "c_cost", "o_cost"} : Malformed(Get(row, f))

\* A severity row without its malformed fields.
WithoutMalformed(row) ==
    [f \in {g \in DOMAIN row : ~Malformed(row[g])} |-> row[f]]

\* C10 as stated: a load of tables with a malformed numeric value in a
\* coefficient row or in a severity row fails with ValueError and yields no
\* model.
C10_AnyMalformedRowFailsLoad ==
    (source # NoSource
     /\ \/ \E k \in 1..Len(source.coefficient_rows) :
              MalformedCoefficientRow(source.coefficient_rows[k])
        \/ \E k \in 1..Len(source.severity_rows) :
              MalformedSeverityRow(source.severity_rows[k]))
        => (loadError = "ValueError" /\ model = NoModel)

\* C10 amended: a load fails with ValueError and yields no model exactly
\* when a coefficient row has a malformed numeric value; a malformed value
\* in a severity row does not fail the load: the field takes its default,
\* as if the row did not have it.
C10_MalformedCoefficientRowFailsLoad ==
    source # NoSource =>
        IF \E k \in 1..Len(source.coefficient_rows) :
              MalformedCoefficientRow(source.coefficient_rows[k])
        THEN loadError = "ValueError" /\ model = NoModel /\ loaded = NoModel
        ELSE /\ loadError = ""
             /\ Len(loaded.model.coefficients) = Len(source.coefficient_rows)
             /\ Len(loaded.model.severity_profiles) = Len(source.severity_rows)
             /\ \A k \in 1..Len(source.severity_rows) : \A l \in Levels :
                   Malformed(Get(source.severity_rows[k], CostField[l])) =>
                       loaded.model.severity_profiles[k].severity_costs[l]
                           = DocumentedCosts[l]
             /\ \A k \in 1..Len(source.severity_rows) :
                   loaded.model.severity_profiles[k]
                       = from_row(WithoutMalformed(source.severity_rows[k]),
                                  ModuleGlobals)

\* C10's case: a load of a coefficient table with a malformed row has
\* failed.
C10_Witness ==
    /\ source # NoSource
    /\ \E k \in 1..Len(source.coefficient_rows) :
          MalformedCoefficientRow(source.coefficient_rows[k])
    /\ loadError = "ValueError"

\* C8: two predict calls on the same model with the same facility,
\* area_type and directional_inputs raise the same error or return equal
\* results, whatever calls were made in between.
C8_SameCallSameResult ==
    \A i, j \in 1..Len(results) :
        results[i].call = results[j].call =>
            /\ results[i].error = results[j].error
            /\ results[i].returned = results[j].returned

\* C8's case: the same successful call made twice on a model whose config
\* has CMF overrides, with a non-zero total.
C8_Witness ==
    /\ model # NoModel
    /\ \E i, j \in OkResults :
          /\ i < j
          /\ results[i].call = results[j].call
          /\ results[i].returned.total_all_sev.f # Zero
          /\ DOMAIN loaded.model.config.cmf_overrides # {}

\* C9: predict calls leave the model (coefficients, severity profiles,
\* config) and the module's default tables as the load left them, every
\* result is made of dicts no other result shares, and a result the caller
\* has not written into still holds what predict returned, whatever the
\* caller wrote into other results.
C9_ModelUnchangedResultsFresh ==
    /\ model # NoModel =>
          /\ model = loaded.model
          /\ globals = loaded.globals
          /\ globals = ModuleGlobals
    /\ \A i \in OkResults :
          /\ ~results[i].mutated =>
                Deref(heap, results[i].root) = results[i].returned
          /\ \A j \in OkResults \ {i} :
                results[i].addrs \cap results[j].addrs = {}

\* C9's case: the caller holds two returned results and has written into
\* one of them.
C9_Witness ==
    \E i, j \in OkResults :
        /\ i # j
        /\ results[i].mutated
        /\ ~results[j].mutated
        /\ Deref(heap, results[i].root) # results[i].returned

\* The number a field of a row holds, if it holds one.
HoldsNumber(row, field) == Get(row, field) \in DOMAIN FloatLiterals

NumberOf(row, field) == FloatLiterals[Get(row, field)]

\* Both override fields hold numbers >= 0 whose sum is > 0.
OverrideGiven(row) ==
    /\ HoldsNumber(row, "fi_share") /\ HoldsNumber(row, "pdo_share")
    /\ RLe(Zero, NumberOf(row, "fi_share"))
    /\ RLe(Zero, NumberOf(row, "pdo_share"))
    /\ RLt(Zero, RAdd(NumberOf(row, "fi_share"), NumberOf(row, "pdo_share")))

\* The row without its override fields.
WithoutOverrides(row) ==
    [f \in DOMAIN row \ {"fi_share", "pdo_share"} |-> row[f]]

\* The profile from_row builds from the row's KABCO share fields alone.
FromSharesAlone(row) == from_row(WithoutOverrides(row), ModuleGlobals)

\* A profile has been built by from_row.
BuiltFromRow == profile # NoProfile /\ profile.how = "from_row"

\* C11: from_row applies the fi/pdo override if and only if both override
\* fields hold numbers >= 0 with a sum > 0; otherwise the shares, fi_share
\* and pdo_share are those of the KABCO share fields alone, and with the
\* override fi_share is fi / (fi + pdo).
C11_OverrideAppliedIffGiven ==
    BuiltFromRow =>
        IF OverrideGiven(profile.row)
        THEN profile.built.fi_share
                = RDiv(NumberOf(profile.row, "fi_share"),
                       RAdd(NumberOf(profile.row, "fi_share"),
                            NumberOf(profile.row, "pdo_share")))
        ELSE /\ profile.built.kabco_shares
                   = FromSharesAlone(profile.row).kabco_shares
             /\ profile.built.fi_share = FromSharesAlone(profile.row).fi_share
             /\ profile.built.pdo_share = FromSharesAlone(profile.row).pdo_share

\* C11's case: a profile built from a row with a positive fi_share and no
\* usable pdo_share, the share fields alone giving another fi_share.
C11_Witness ==
    /\ BuiltFromRow
    /\ HoldsNumber(profile.row, "fi_share")
    /\ RLt(Zero, NumberOf(profile.row, "fi_share"))
    /\ ~HoldsNumber(profile.row, "pdo_share")
    /\ profile.built.fi_share # One

\* C12: with the override applied, fi_share = fi / (fi + pdo) and pdo_share
\* = pdo / (fi + pdo); the k, a, b, c shares keep their pairwise ratios when
\* they summed to more than 0 before, and are each fi_share / 4 when they
\* summed to 0.
C12_OverrideRescales ==
    (BuiltFromRow /\ OverrideGiven(profile.row)) =>
        /\ profile.built.fi_share
              = RDiv(NumberOf(profile.row, "fi_share"),
                     RAdd(NumberOf(profile.row, "fi_share"),
                          NumberOf(profile.row, "pdo_share")))
        /\ profile.built.pdo_share
              = RDiv(NumberOf(profile.row, "pdo_share"),
                     RAdd(NumberOf(profile.row, "fi_share"),
                          NumberOf(profile.row, "pdo_share")))
        /\ Sum4(profile.built.kabco_shares) = profile.built.fi_share
        /\ profile.built.kabco_shares.o = profile.built.pdo_share
        /\ RLt(Zero, FromSharesAlone(profile.row).fi_share) =>
              \A l, m \in FiLevels :
                  RMul(profile.built.kabco_shares[l],
                       FromSharesAlone(profile.row).kabco_shares[m])
                    = RMul(profile.built.kabco_shares[m],
                           FromSharesAlone(profile.row).kabco_shares[l])
        /\ FromSharesAlone(profile.row).fi_share = Zero =>
              \A l \in FiLevels :
                  profile.built.kabco_shares[l]
                      = RDiv(profile.built.fi_share, R(4, 1))

\* C12's case: an override with fi > 0 applied to a row whose k, a, b, c
\* shares sum to 0.
C12_Witness ==
    /\ BuiltFromRow
    /\ OverrideGiven(profile.row)
    /\ FromSharesAlone(profile.row).fi_share = Zero
    /\ RLt(Zero, profile.built.fi_share)

\* The raw share of a level: the row's number, or the documented default.
RawShare(row, l) ==
    IF HoldsNumber(row, ShareField[l]) THEN NumberOf(row, ShareField[l])
    ELSE DocumentedShares[l]

RawShareSum(row) ==
    RAdd(RAdd(RAdd(RAdd(RawShare(row, "k"), RawShare(row, "a")),
                   RawShare(row, "b")), RawShare(row, "c")),
         RawShare(row, "o"))

\* C13: in from_row a missing share takes its default share and a missing
\* cost its default cost, and when the five raw shares sum to <= 0 all five
\* are replaced by the default shares before normalizing (seen on the rows
\* without an applied override).
C13_DefaultsAndReset ==
    BuiltFromRow =>
        /\ \A l \in Levels :
              profile.built.severity_costs[l]
                  = IF HoldsNumber(profile.row, CostField[l])
                    THEN NumberOf(profile.row, CostField[l])
                    ELSE DocumentedCosts[l]
        /\ ~OverrideGiven(profile.row) =>
              \A l \in Levels :
                  profile.built.kabco_shares[l]
                      = IF RLe(RawShareSum(profile.row), Zero)
                        THEN DocumentedShares[l]
                        ELSE RDiv(RawShare(profile.row, l),
                                  RawShareSum(profile.row))

\* C13's case: a row that supplies shares summing, with the defaults of its
\* missing ones, to <= 0, and that has no k_cost.
C13_Witness ==
    /\ BuiltFromRow
    /\ ~OverrideGiven(profile.row)
    /\ HoldsNumber(profile.row, "k_share")
    /\ ~HoldsNumber(profile.row, "a_share")
    /\ RLe(RawShareSum(profile.row), Zero)
    /\ ~HoldsNumber(profile.row, "k_cost")
    /\ profile.built.kabco_shares = DocumentedShares

\* The coefficient row predict uses for a collision type of a call.
CoefficientFor(call, collision) ==
    model.coefficients[LastMatch(model.coefficients, Lower(call.facility),
                                 Lower(call.area_type), collision)]

\* The base prediction of one direction of a call for a collision type.
BasePrediction(call, collision, j) ==
    SpfCoefficient_predict(
        CoefficientFor(call, collision),
        InfoGet(call.directional_inputs[j], "aadt"),
        InfoGet(call.directional_inputs[j], "segment_length_miles"),
        InfoGet(call.directional_inputs[j], "lane_count"))

\* The CMF the configuration gives a collision type.
ConfiguredCmf(collision) ==
    IF collision \in DOMAIN model.config.cmf_overrides
    THEN model.config.cmf_overrides[collision]
    ELSE model.config.default_cmf

\* C14: a collision type's total is the sum over the directions of
\* base_prediction * calibration_factor * cmf, the cmf being the override of
\* that collision type if it has one and default_cmf otherwise (1.0 in the
\* default configuration), whatever overrides other collision types have.
C14_CalibratedContribution ==
    /\ DefaultHsmConfig.default_cmf = One
    /\ DefaultHsmConfig.cmf_overrides = <<>>
    /\ \A i \in OkResults : \A key \in SummaryKeys(i) :
          Summary(i, key).total.f
            = SumSeq([j \in 1..Len(results[i].call.directional_inputs) |->
                        RMul(RMul(BasePrediction(results[i].call, key, j),
                                  model.config.calibration_factor),
                             ConfiguredCmf(key))],
                     Len(results[i].call.directional_inputs))

\* C14's case: a result with a collision type that has a CMF override and
\* another that has none, both of non-zero total, under a default_cmf and a
\* calibration factor other than 1.
C14_Witness ==
    \E i \in OkResults : \E c, d \in SummaryKeys(i) :
        /\ c \in DOMAIN model.config.cmf_overrides
        /\ d \notin DOMAIN model.config.cmf_overrides
        /\ Summary(i, c).total.f # Zero
        /\ Summary(i, d).total.f # Zero
        /\ model.config.default_cmf # One
        /\ model.config.calibration_factor # One

\* A row of a csv file is for the facility and area type of a call: equal
\* up to letter case, and up to the blanks around the row's strings.
RowIsFor(row, call) ==
    /\ Lower(Strip(row.facility)) = Lower(call.facility)
    /\ Lower(Strip(row.area_type)) = Lower(call.area_type)

\* The coefficient rows of the file that are for a call.
RowsFor(call) ==
    {k \in 1..Len(source.coefficient_rows) :
        RowIsFor(source.coefficient_rows[k], call)}

\* The severity rows of the file that are for a call and a collision type.
SeverityRowsFor(call, collision) ==
    {k \in 1..Len(source.severity_rows) :
        /\ RowIsFor(source.severity_rows[k], call)
        /\ Lower(Strip(source.severity_rows[k].collision_type)) = collision}

\* C15: a predict request is served by exactly the coefficient rows whose
\* facility and area_type equal the requested ones up to letter case and
\* the blanks around the rows' strings (it raises KeyError when there is
\* none), and a collision type is decomposed with the first severity row
\* that is for the request and whose collision type equals it up to case
\* and surrounding blanks.
C15_RowsMatchUpToCaseAndBlanks ==
    \A i \in 1..Len(results) :
        /\ results[i].error = "KeyError" <=> RowsFor(results[i].call) = {}
        /\ results[i].error = "" =>
              /\ DOMAIN results[i].returned
                    = AggregateKeys \cup
                      {Lower(Strip(source.coefficient_rows[k].collision_type)) :
                          k \in RowsFor(results[i].call)}
              /\ \A key \in SummaryKeys(i) :
                    SeverityRowsFor(results[i].call, key) # {} =>
                        Summary(i, key).kabco.d.k.f
                          = RMul(Summary(i, key).total.f,
                                 from_row(source.severity_rows[
                                             Min(SeverityRowsFor(
                                                   results[i].call, key))],
                                          ModuleGlobals).kabco_shares.k)

\* C15's case: a request in another letter case than a coefficient row
\* with blanks around its strings, served by that row and decomposed with a
\* severity row whose collision type has a trailing blank.
C15_Witness ==
    \E i \in OkResults : \E key \in SummaryKeys(i) :
        /\ results[i].call.facility = "Freeway"
        /\ \E k \in RowsFor(results[i].call) :
              source.coefficient_rows[k].facility = " freeway "
        /\ \E k \in SeverityRowsFor(results[i].call, key) :
              source.severity_rows[k].collision_type = "MV "
        /\ Summary(i, key).total.f # Zero

\* The length of a direction, 0.0 when it has none.
LengthOf(info) ==
    IF "segment_length_miles" \in DOMAIN info
    THEN info.segment_length_miles ELSE Zero

\* The mean length over the directions of a call, 0.0 without directions.
MeanLengthOf(call) ==
    IF Len(call.directional_inputs) = 0 THEN Zero
    ELSE RDiv(SumSeq([j \in 1..Len(call.directional_inputs) |->
                         LengthOf(call.directional_inputs[j])],
                     Len(call.directional_inputs)),
              R(Len(call.directional_inputs), 1))

\* max(L, 1e-3)
Floored(L) == IF RLt(L, R(1, 1000)) THEN R(1, 1000) ELSE L

\* C16: k_overdispersion of a returned result is alpha * max(L, 1e-3) ^
\* beta for the mean L of segment_length_miles over the directions (a
\* direction without the field counting 0.0, L = 0.0 without directions):
\* its base is positive, so the power is defined.
C16_OverdispersionOfMeanLength ==
    \A i \in OkResults :
        /\ results[i].returned.k_overdispersion.f.alpha
              = model.config.overdispersion.alpha
        /\ results[i].returned.k_overdispersion.f.beta
              = model.config.overdispersion.beta
        /\ results[i].returned.k_overdispersion.f.base
              = Floored(MeanLengthOf(results[i].call))
        /\ RLt(Zero, results[i].returned.k_overdispersion.f.base)

\* C16's case: a returned result of a call with two directions, one of
\* them without a length, whose mean length is below 1e-3.
C16_Witness ==
    \E i \in OkResults :
        /\ Len(results[i].call.directional_inputs) = 2
        /\ \E j \in 1..2 : "segment_length_miles"
                             \notin DOMAIN results[i].call.directional_inputs[j]
        /\ RLt(MeanLengthOf(results[i].call), R(1, 1000))
        /\ MeanLengthOf(results[i].call) # Zero

\* The base prediction of every direction and collision type of every
\* returned result is >= 0.
BasePredictionsNonNegative ==
    \A i \in OkResults : \A key \in CollisionTypesFor(results[i].call) :
        \A j \in 1..Len(results[i].call.directional_inputs) :
            RLe(Zero, BasePrediction(results[i].call, key, j))

\* C18 as stated: every base prediction is >= 0, and total_all_sev of
\* every returned result is >= 0.
C18_TotalNonNegative ==
    /\ BasePredictionsNonNegative
    /\ \A i \in OkResults : RLe(Zero, results[i].returned.total_all_sev.f)

\* C18 amended: every base prediction is >= 0 whatever the signs of the
\* coefficients, and total_all_sev is >= 0 when the calibration factor and
\* the CMFs of the collision types of the call are >= 0.
C18_TotalNonNegativeUnderNonNegativeFactors ==
    /\ BasePredictionsNonNegative
    /\ \A i \in OkResults :
          (/\ RLe(Zero, model.config.calibration_factor)
           /\ \A key \in CollisionTypesFor(results[i].call) :
                 RLe(Zero, ConfiguredCmf(key)))
              => RLe(Zero, results[i].returned.total_all_sev.f)

\* C18's case: a positive base prediction from a coefficient row with a
\* negative intercept, in a result of positive total_all_sev.
C18_Witness ==
    \E i \in OkResults : \E key \in CollisionTypesFor(results[i].call) :
        /\ RLt(CoefficientFor(results[i].call, key).intercept, Zero)
        /\ \E j \in 1..Len(results[i].call.directional_inputs) :
              RLt(Zero, BasePrediction(results[i].call, key, j))
        /\ RLt(Zero, results[i].returned.total_all_sev.f)

\* The rows of the recording summarized that are of a direction: their
\* drivingDirection is the text of that whole number.
RowsOfDirection(d) ==
    {k \in 1..Len(flowed.recording.tracks_meta) :
        /\ flowed.recording.tracks_meta[k].drivingDirection
              \in DOMAIN IntLiterals
        /\ IntLiterals[flowed.recording.tracks_meta[k].drivingDirection] = d}

\* The distinct vehicle ids among the rows of a direction.
IdsOfDirection(d) ==
    {flowed.recording.tracks_meta[k].id : k \in RowsOfDirection(d)} \ {NONE}

\* The sum of the hourly flows of the directions of the result.
RECURSIVE FlowSum(_)
FlowSum(D) ==
    IF D = {} THEN Zero
    ELSE RAdd(flowed.result.directions[Min(D)].hourly_flow_veh_per_h,
              FlowSum(D \ {Min(D)}))

\* C19: the result summarize_flow returns has one entry per driving direction of the
\* rows whose drivingDirection parses (other rows are skipped); the entry's
\* vehicle_count is the number of distinct ids of the direction's rows, its
\* hourly flow vehicle_count / duration * 3600, 0.0 when duration <= 0, and
\* hourly_flow_total is the sum of the directions' hourly flows.
C19_FlowPerDirection ==
    (flowed # NoFlow /\ flowed.result.raised = "") =>
        /\ DOMAIN flowed.result.directions
              = {d \in 0..2 : RowsOfDirection(d) # {}}
        /\ \A d \in DOMAIN flowed.result.directions :
              /\ flowed.result.directions[d].vehicle_count
                    = Cardinality(IdsOfDirection(d))
              /\ flowed.result.directions[d].hourly_flow_veh_per_h
                    = IF RLe(flowed.recording.duration, Zero) THEN Zero
                      ELSE RMul(RDiv(R(Cardinality(IdsOfDirection(d)), 1),
                                     flowed.recording.duration),
                                R(3600, 1))
        /\ flowed.result.hourly_flow_total
              = FlowSum(DOMAIN flowed.result.directions)

\* C19's case: a recording of positive duration with a repeated vehicle id
\* in one direction, the direction written in two ways, and another
\* direction.
C19_Witness ==
    /\ flowed # NoFlow
    /\ flowed.result.raised = ""
    /\ RLt(Zero, flowed.recording.duration)
    /\ Len(flowed.recording.tracks_meta) = 2
    /\ flowed.recording.tracks_meta[1].drivingDirection = "1"
    /\ flowed.recording.tracks_meta[2].drivingDirection = " 1 "
    /\ flowed.recording.tracks_meta[1].id = flowed.recording.tracks_meta[2].id
    /\ flowed.result.directions[1].vehicle_count = 1

\* A factor of a table of the configuration, 1.0 when the key is missing.
FactorOrOne(table, key) ==
    IF key \in DOMAIN table THEN table[key] ELSE One

\* The scaling of the claim when the factor configuration is used.
FactoredScaling(timestamp, factors) ==
    RDiv(RMul(RMul(R(24, 1),
                   FactorOrOne(factors.weekday_factors, timestamp.weekday)),
              FactorOrOne(factors.month_factors, IntStr[timestamp.month])),
         IF FactorOrOne(factors.hour_shares, IntStr[timestamp.hour]) = Zero
         THEN One
         ELSE FactorOrOne(factors.hour_shares, IntStr[timestamp.hour]))

\* The sum of the aadt of the directions of the estimate.
RECURSIVE AadtSum(_)
AadtSum(D) ==
    IF D = {} THEN Zero
    ELSE RAdd(estimated.result.directions[Min(D)].aadt, AadtSum(D \ {Min(D)}))

\* C20: estimate_aadt uses the factor configuration exactly when both a
\* configuration and a timestamp are present: then the method is "factored"
\* and each direction's aadt is hourly flow * 24 * weekday factor * month
\* factor / hour share, a missing factor counting as 1.0 and an hour share
\* of 0 as 1.0; otherwise the method is "baseline" and aadt is hourly flow
\* * 24. aadt_total is the sum of the directions' aadt.
C20_FactoredIffConfigAndTimestamp ==
    estimated # NoEstimate =>
        /\ DOMAIN estimated.result.directions = DOMAIN flowed.result.directions
        /\ estimated.result.method
              = IF estimated.factors # NoFactors
                   /\ estimated.timestamp # NoTimestamp
                THEN "factored" ELSE "baseline"
        /\ \A d \in DOMAIN flowed.result.directions :
              estimated.result.directions[d].aadt
                 = RMul(flowed.result.directions[d].hourly_flow_veh_per_h,
                        IF estimated.factors # NoFactors
                           /\ estimated.timestamp # NoTimestamp
                        THEN FactoredScaling(estimated.timestamp,
                                             estimated.factors)
                        ELSE R(24, 1))
        /\ estimated.result.aadt_total
              = AadtSum(DOMAIN estimated.result.directions)

\* C20's case: two directions with vehicles, a timestamp and a
\* configuration that has the weekday and the month of the timestamp and an
\* hour share below 1, so that the estimate differs from the baseline.
C20_Witness ==
    /\ estimated # NoEstimate
    /\ estimated.result.method = "factored"
    /\ DOMAIN estimated.result.directions = {1, 2}
    /\ estimated.timestamp.month = 3
    /\ "Mon" \in DOMAIN estimated.factors.weekday_factors
    /\ "3" \in DOMAIN estimated.factors.month_factors
    /\ "8" \in DOMAIN estimated.factors.hour_shares
    /\ estimated.factors.hour_shares["8"] # Zero
    /\ estimated.result.directions[1].aadt
          # RMul(flowed.result.directions[1].hourly_flow_veh_per_h, R(24, 1))
    /\ estimated.result.aadt_total # Zero
\* The files process writes whatever output_reports is, and the reports.
JsonFiles == {"structure.json", "flow.json", "aadt.json", "hsm_prediction.json"}
ReportFiles == {"report.md", "report.html"}

\* The files the i-th call wrote.
WrittenBy(i) == {runs[i].written[k] : k \in 1..Len(runs[i].written)}

\* C17: every successful process call writes structure.json, flow.json,
\* aadt.json and hsm_prediction.json into its output directory, where they
\* are when it returns; it returns a mapping with exactly the keys
\* structure, flow, aadt and hsm_prediction, whose hsm_prediction has the
\* key k_overdispersion; it writes report.md and report.html if and only
\* if output_reports is true.
C17_SuccessfulProcessWritesAndReturns ==
    \A i \in 1..Len(runs) :
        runs[i].error = "" =>
            /\ JsonFiles \subseteq WrittenBy(i)
            /\ runs[i].output_dir \in DOMAIN disk
            /\ \A f \in JsonFiles :
                  /\ f \in DOMAIN disk[runs[i].output_dir]
                  /\ disk[runs[i].output_dir][f] >= i
            /\ DOMAIN runs[i].returned
                  = {"structure", "flow", "aadt", "hsm_prediction"}
            /\ "k_overdispersion" \in DOMAIN runs[i].returned.hsm_prediction
            /\ \A f \in ReportFiles :
                  f \in WrittenBy(i)
                     <=> processor.pipeline_config.output_reports

\* C17's case: a call that raised after the output directory was made,
\* then a successful call into the same directory without reports: the
\* directory holds the four files and no report, and the prediction is of
\* the factored AADT of two directions.
C17_Witness ==
    /\ Len(runs) = 2
    /\ runs[1].error = "ZeroDivisionError"
    /\ runs[2].error = ""
    /\ runs[2].output_dir = runs[1].output_dir
    /\ ~processor.pipeline_config.output_reports
    /\ DOMAIN disk[runs[2].output_dir] = JsonFiles
    /\ DOMAIN runs[2].returned.flow.directions = {1, 2}
    /\ runs[2].returned.aadt.method = "factored"
    /\ runs[2].returned.hsm_prediction.total_all_sev.f # Zero
\* The entry of a returned dict is a float.
IsFloat(entry) == DOMAIN entry = {"f"}

\* The entry of a returned dict is a dict of the five severity levels.
IsLevels(entry) ==
    /\ "d" \in DOMAIN entry
    /\ DOMAIN entry.d = Levels

\* C22: in every returned result each collision type with a coefficient
\* row for the call's facility and area type maps to a collision summary
\* (fi, pdo, total, kabco, economic_loss), and the seven aggregate keys map
\* to the aggregates: five floats, the severity breakdown and the run-level
\* economic loss, whatever the collision types are named.
C22_EveryKeyHoldsItsOwnValue ==
    \A i \in OkResults :
        /\ \A c \in CollisionTypesFor(results[i].call) :
              /\ c \in DOMAIN results[i].returned
              /\ IsSummary(results[i].returned[c])
        /\ AggregateKeys \subseteq DOMAIN results[i].returned
        /\ \A key \in {"total_all_sev", "total_fi", "total_pdo",
                       "k_overdispersion", "calibration_C"} :
              IsFloat(results[i].returned[key])
        /\ IsLevels(results[i].returned.severity_breakdown)
        /\ "d" \in DOMAIN results[i].returned.economic_loss
        /\ DOMAIN results[i].returned.economic_loss.d
              = {"total", "by_severity"}

\* The sum of one float of the collision summaries of a returned dict.
RECURSIVE SumOfSummaries(_, _, _)
SumOfSummaries(i, keys, field) ==
    IF keys = {} THEN Zero
    ELSE RAdd(Summary(i, CHOOSE k \in keys : TRUE)[field].f,
              SumOfSummaries(i, keys \ {CHOOSE k \in keys : TRUE}, field))

\* The sum of the kabco values of one level of the collision summaries.
RECURSIVE SumOfKabco(_, _, _)
SumOfKabco(i, keys, level) ==
    IF keys = {} THEN Zero
    ELSE RAdd(Summary(i, CHOOSE k \in keys : TRUE).kabco.d[level].f,
              SumOfKabco(i, keys \ {CHOOSE k \in keys : TRUE}, level))

\* The sum of the by_severity losses of one level of the collision
\* summaries.
RECURSIVE SumOfLosses(_, _, _)
SumOfLosses(i, keys, level) ==
    IF keys = {} THEN Zero
    ELSE RAdd(Summary(i, CHOOSE k \in keys : TRUE)
                 .economic_loss.d.by_severity.d[level].f,
              SumOfLosses(i, keys \ {CHOOSE k \in keys : TRUE}, level))

\* C21: in every returned result the run-level aggregates are the sums of
\* the collision summaries in it: severity_breakdown and run-level
\* by_severity level by level, total_fi the sum of their fi, total_pdo the
\* sum of their pdo, and total_fi + total_pdo = total_all_sev.
C21_AggregatesAreSumsOfEntries ==
    \A i \in OkResults :
        /\ \A l \in Levels :
              /\ results[i].returned.severity_breakdown.d[l].f
                    = SumOfKabco(i, SummaryKeys(i), l)
              /\ results[i].returned.economic_loss.d.by_severity.d[l].f
                    = SumOfLosses(i, SummaryKeys(i), l)
        /\ results[i].returned.total_fi.f
              = SumOfSummaries(i, SummaryKeys(i), "fi")
        /\ results[i].returned.total_pdo.f
              = SumOfSummaries(i, SummaryKeys(i), "pdo")
        /\ RAdd(results[i].returned.total_fi.f, results[i].returned.total_pdo.f)
              = results[i].returned.total_all_sev.f
\* The loaded coefficient table has a row for the processor's facility
\* and area type.
ProcessorHasRows ==
    \E k \in 1..Len(model.coefficients) :
        /\ model.coefficients[k].facility = processor.pipeline_config.facility
        /\ model.coefficients[k].area_type
              = processor.pipeline_config.area_type

\* The files of an output directory that the i-th call wrote last.
FilesOf(i) ==
    IF runs[i].output_dir \in DOMAIN disk
    THEN {f \in DOMAIN disk[runs[i].output_dir] :
             disk[runs[i].output_dir][f] = i}
    ELSE {}

\* C23: a process call whose predict step raises the missing-coefficients
\* KeyError has written none of structure.json, flow.json, aadt.json,
\* hsm_prediction.json, report.md and report.html, while its output
\* directory exists; a call writes files only when it returns, predict
\* having returned.
C23_NoFileBeforePredictReturns ==
    \A i \in 1..Len(runs) :
        /\ runs[i].error = "KeyError" =>
              /\ runs[i].written = <<>>
              /\ FilesOf(i) = {}
              /\ runs[i].output_dir \in DOMAIN disk
        /\ (runs[i].written # <<>> \/ FilesOf(i) # {}) =>
              /\ runs[i].error = ""
              /\ "hsm_prediction" \in DOMAIN runs[i].returned

\* C23's case: a processor for a facility without coefficient rows; its
\* call on a recording that loads and summarizes raises KeyError, and the
\* output directory is there and empty.
C23_Witness ==
    /\ processor # NoProcessor
    /\ ~ProcessorHasRows
    /\ Len(runs) >= 1
    /\ runs[1].error = "KeyError"
    /\ runs[1].recording = GoodRecording
    /\ runs[1].output_dir \in DOMAIN disk
    /\ DOMAIN disk[runs[1].output_dir] = {}
\* The rows of the coefficient file for a call and a collision type.
CoefficientRowsFor(call, collision) ==
    {k \in RowsFor(call) :
        Lower(Strip(source.coefficient_rows[k].collision_type)) = collision}

\* The largest element of a set of numbers.
Max(S) == CHOOSE x \in S : \A y \in S : y <= x

\* The prediction of the last row of the file for a collision type, for one
\* direction of a call, calibrated.
LastRowEstimate(call, collision, j) ==
    RMul(RMul(SpfCoefficient_predict(
                 model.coefficients[Max(CoefficientRowsFor(call, collision))],
                 InfoGet(call.directional_inputs[j], "aadt"),
                 InfoGet(call.directional_inputs[j], "segment_length_miles"),
                 InfoGet(call.directional_inputs[j], "lane_count")),
              model.config.calibration_factor),
         ConfiguredCmf(collision))

\* C24: with several coefficient rows for one (facility, area_type,
\* collision_type), the collision type's total is the sum over the
\* directions of the prediction of the last of these rows alone, once per
\* direction; with several severity rows for the triple, the collision type
\* is decomposed with the first of them.
C24_LastCoefficientFirstSeverity ==
    \A i \in OkResults : \A key \in SummaryKeys(i) :
        /\ Summary(i, key).total.f
              = SumSeq([j \in 1..Len(results[i].call.directional_inputs) |->
                          LastRowEstimate(results[i].call, key, j)],
                       Len(results[i].call.directional_inputs))
        /\ SeverityRowsFor(results[i].call, key) # {} =>
              \A l \in Levels :
                  Summary(i, key).kabco.d[l].f
                    = RMul(Summary(i, key).total.f,
                           model.severity_profiles[
                               Min(SeverityRowsFor(results[i].call, key))]
                              .kabco_shares[l])

\* C24's case: two coefficient rows and two severity rows for the same
\* triple, with different coefficients and different shares, and a result
\* over two directions with a non-zero total for it.
C24_Witness ==
    \E i \in OkResults : \E key \in SummaryKeys(i) :
        /\ Cardinality(CoefficientRowsFor(results[i].call, key)) = 2
        /\ Cardinality(SeverityRowsFor(results[i].call, key)) = 2
        /\ Len(results[i].call.directional_inputs) = 2
        /\ Summary(i, key).total.f # Zero
        /\ model.coefficients[Min(CoefficientRowsFor(results[i].call, key))]
              # model.coefficients[Max(CoefficientRowsFor(results[i].call, key))]
        /\ model.severity_profiles[1].kabco_shares
              # model.severity_profiles[2].kabco_shares
\* The sum of the class shares of a direction of the flow summary.
RECURSIVE ShareSum(_, _)
ShareSum(shares, classes) ==
    IF classes = {} THEN Zero
    ELSE RAdd(shares[CHOOSE c \in classes : TRUE],
              ShareSum(shares, classes \ {CHOOSE c \in classes : TRUE}))

\* C25: in every result of summarize_flow, the class shares of a direction
\* with vehicle_count > 0 are each between 0 and 1 and sum to 1, rows that
\* repeat a vehicle id and rows without an id included.
C25_ClassSharesSumToOne ==
    (flowed # NoFlow /\ flowed.result.raised = "") =>
        \A d \in DOMAIN flowed.result.directions :
            flowed.result.directions[d].vehicle_count > 0 =>
                /\ \A c \in DOMAIN flowed.result.directions[d].class_shares :
                      /\ RLe(Zero, flowed.result.directions[d].class_shares[c])
                      /\ RLe(flowed.result.directions[d].class_shares[c], One)
                /\ ShareSum(flowed.result.directions[d].class_shares,
                            DOMAIN flowed.result.directions[d].class_shares)
                      = One
\* The names of the data root of the process_all call that are
\* directories holding recordingMeta.csv.
RecordingNames ==
    {name \in DOMAIN batch.data_root :
        /\ "files" \in DOMAIN batch.data_root[name]
        /\ "recordingMeta.csv" \in batch.data_root[name].files}

\* The place of a name in the order of the strings.
NameRank == "10" :> 1 @@ "2" :> 2 @@ "B" :> 3 @@ "a" :> 4

\* The k-th recording name in sorted order.
NthRecording(k) ==
    CHOOSE name \in RecordingNames :
        Cardinality({other \in RecordingNames :
                        NameRank[other] < NameRank[name]}) = k - 1

\* The process_all call went through every recording without an
\* exception.
BatchCompleted ==
    /\ Len(runs) = Cardinality(RecordingNames)
    /\ \A k \in 1..Len(runs) : runs[k].error = ""

\* C26: process_all processes the directories of data_root that hold
\* recordingMeta.csv, and nothing else, in sorted name order, each into
\* output_root/<name>, and returns one entry per such directory under its
\* name; when processing a recording raises, process_all raises that
\* exception and returns no mapping, the later recordings are not
\* processed, and the files of the earlier recordings are on disk.
C26_ProcessAllInOrderUntilFailure ==
    (batch # NoBatch /\ batch.data_root # NoRoot) =>
        /\ Len(runs) <= Cardinality(RecordingNames)
        /\ \A k \in 1..Len(runs) :
              /\ runs[k].recording = batch.data_root[NthRecording(k)]
              /\ runs[k].output_dir = <<batch.output_root, NthRecording(k)>>
              /\ k < Len(runs) => runs[k].error = ""
              /\ runs[k].error = "" =>
                    /\ JsonFiles \subseteq WrittenBy(k)
                    /\ \A f \in WrittenBy(k) :
                          /\ f \in DOMAIN disk[runs[k].output_dir]
                          /\ disk[runs[k].output_dir][f] = k
        /\ IF BatchCompleted
           THEN /\ batch.error = ""
                /\ DOMAIN batch.returned = RecordingNames
                /\ \A k \in 1..Len(runs) :
                      batch.returned[NthRecording(k)] = runs[k].returned
           ELSE /\ Len(runs) >= 1
                /\ runs[Len(runs)].error # ""
                /\ batch.error = runs[Len(runs)].error
                /\ batch.returned = <<>>

\* C26's case: three recordings; the first in sorted order ("10", before
\* "2") is processed, the second raises, the third ("B") is not processed,
\* no mapping is returned and the files of the first are on disk.
C26_Witness ==
    /\ batch # NoBatch
    /\ batch.data_root # NoRoot
    /\ RecordingNames = {"10", "2", "B"}
    /\ Len(runs) = 2
    /\ runs[1].output_dir = <<"out", "10">>
    /\ runs[1].error = ""
    /\ runs[2].output_dir = <<"out", "2">>
    /\ runs[2].error = "ZeroDivisionError"
    /\ batch.error = "ZeroDivisionError"
    /\ batch.returned = <<>>
    /\ JsonFiles \subseteq DOMAIN disk[<<"out", "10">>]
    /\ <<"out", "B">> \notin DOMAIN disk
====
